---------------------------- MODULE Spec2Model ----------------------------
(***************************************************************************)
(* A model of the React Wordle client (multiplayer page, single-player     *)
(* hook and page, authentication provider, lobby page and the WebSocket    *)
(* hooks) together with the part of the game server the client talks to.   *)
(* The client is translated from the JavaScript under src/; the server is  *)
(* not part of the client sources and is modelled from spec.md sections    *)
(* 4.3 - 4.7.                                                              *)
(*                                                                         *)
(* One action is one event handler of the client (a key press, a socket    *)
(* event, a timer callback, the completion of an HTTP request) including   *)
(* the React effects that run because of the state it sets.  A handler     *)
(* always sees the state of the last render.                               *)
(***************************************************************************)
EXTENDS Integers, Sequences, FiniteSets, TLC

(***************************************************************************)
(* Program constants                                                       *)
(***************************************************************************)
WordLength == 5
WrongLetters == 5
MAX_HEARTBEAT_FAILURES == 1

(***************************************************************************)
(* Bounds of the model                                                     *)
(***************************************************************************)
\* rounds a player has in a match (6 in the program)
MaxRounds == 1
\* single-player games started on one visit of the page
MaxGames == 2
\* longest queue of server events waiting to be delivered to the client
MaxInbox == 3
\* most requests of a client in flight at once
MaxInFlight == 2
\* most logins the other device performs
MaxOtherLogins == 2
\* logins of this client
MaxLogins == 2
\* longest queue of lobby events on their way to the client
MaxLobbyInbox == 3
\* most lobby messages of the client on their way to the server
MaxLobbyOutbox == 2
\* guesses scored in one session of the scorer
MaxScored == 2
\* sockets the WebSocketService creates
MaxSockets == 2
\* listeners the WebSocketService holds for one event
MaxListeners == 2
\* messages the WebSocketService sends
MaxSent == 2

Me == "me"
Opp == "opp"
Players == {Me, Opp}

FLASH == <<"F", "L", "A", "S", "H">>
WRONG == <<"W", "R", "O", "N", "G">>
BLOCK == <<"B", "L", "O", "C", "K">>
SpellNames == {FLASH, WRONG, BLOCK}

\* The server's dictionary (a sample), the secret word of the match, and a
\* word of five letters that is not in the dictionary.
CRANE == <<"C", "R", "A", "N", "E">>
CRANK == <<"C", "R", "A", "N", "K">>
CRANS == <<"C", "R", "A", "N", "S">>
Dictionary == {CRANE, CRANK}
Secret == CRANE

\* The words a player may type letter by letter (a sample of the inputs);
\* a specification lets the player type a subset of them.
Vocabulary == SpellNames \cup {CRANE, CRANK, CRANS}
\* The letters Math.random may produce for a scrambled input (a sample).
RandomLetters == {"Q"}
\* The letter typed once the input is no prefix of a Vocabulary word.
FillerLetter == "E"

Null == [null |-> TRUE]

\* the letters of /^[A-Z]$/, and the keys of the same letters without Shift
UpperCase == <<"A", "B", "C", "D", "E", "F", "G", "H", "I", "J", "K", "L", "M",
               "N", "O", "P", "Q", "R", "S", "T", "U", "V", "W", "X", "Y", "Z">>
LowerCase == <<"a", "b", "c", "d", "e", "f", "g", "h", "i", "j", "k", "l", "m",
               "n", "o", "p", "q", "r", "s", "t", "u", "v", "w", "x", "y", "z">>
Alphabet == {UpperCase[i] : i \in DOMAIN UpperCase}

\* event.key.toUpperCase(), for the keys of the model
toUpperCase(key) ==
  IF \E i \in DOMAIN LowerCase : LowerCase[i] = key
  THEN UpperCase[CHOOSE i \in DOMAIN LowerCase : LowerCase[i] = key]
  ELSE IF key = "Enter" THEN "ENTER"
  ELSE IF key = "Backspace" THEN "BACKSPACE"
  ELSE key

\* /^[A-Z]+$/.test(word)
OnlyLetters(word) == word # <<>> /\ \A i \in 1..Len(word) : word[i] \in Alphabet

IsPrefix(p, w) == Len(p) <= Len(w) /\ SubSeq(w, 1, Len(p)) = p

\* Letters the player may type next when typing the words of V.
TypedLetters(V, cg) ==
  LET next == {w[Len(cg) + 1] : w \in {v \in V : Len(cg) < Len(v) /\ IsPrefix(cg, v)}}
  IN IF next = {} THEN {FillerLetter} ELSE next

AllLetters ==
  UNION {{w[i] : i \in 1..Len(w)} : w \in Vocabulary} \cup RandomLetters \cup {FillerLetter}

(***************************************************************************)
(* WordScorer (spec.md 4.1): the two-pass scoring of a guess.              *)
(***************************************************************************)
Count(c, w, S) == Cardinality({i \in S : w[i] = c})

Positions == 1..WordLength

Hits(guess, secret) == {i \in Positions : guess[i] = secret[i]}

\* a mutation of pass 2: a letter of the secret is Present wherever it is
\* guessed out of place
IsPresentAnywhere(guess, secret, i) ==
  guess[i] # secret[i] /\ \E j \in Positions : secret[j] = guess[i]

\* Pass 2: position i is Present when its letter still has an occurrence in
\* the secret that neither a Hit nor an earlier Present has consumed.
IsPresent(guess, secret, i) ==
  LET c == guess[i]
      hits == Hits(guess, secret)
      avail == Count(c, secret, Positions) - Count(c, guess, hits)
      earlier == Count(c, guess, (1..(i - 1)) \ hits)
  IN i \notin hits /\ earlier < avail

score(guess, secret) ==
  [i \in Positions |->
     IF guess[i] = secret[i] THEN "HIT"
     ELSE IF IsPresent(guess, secret, i) THEN "PRESENT" ELSE "MISS"]

\* Per-letter keyboard status: the best verdict a letter got in any guess
\* (Hit > Present > Miss).
LetterStatus(guesses, secret) ==
  [c \in AllLetters |->
     LET got == {score(guesses[ki[1]], secret)[ki[2]] :
                   ki \in {x \in (1..Len(guesses)) \X Positions : guesses[x[1]][x[2]] = c}}
     IN IF "HIT" \in got THEN "HIT"
        ELSE IF "PRESENT" \in got THEN "PRESENT"
        ELSE IF "MISS" \in got THEN "MISS" ELSE "UNUSED"]

(***************************************************************************)
(* State                                                                   *)
(***************************************************************************)
VARIABLES
  \* App: the page that is shown
  currentPage,
  \* MultiplayerPage (useState)
  gameState, loading, currentGuess, isSubmitting, showResultModal,
  spells, opponentSpells, spellEffects,
  \* pending setTimeout callbacks of MultiplayerPage
  timers,
  \* the message the last step passed to showAlert ("none": it showed none)
  alert,
  \* useMultiplayerWebSocket: its state and the gameState its listeners closed over
  wsConnected, wsGameState, wsGameEnded, closureGameState, joinedRoom,
  \* HTTP guess of the multiplayer page in flight (the word, or no word)
  httpSubmit,
  \* socket: events on their way to the client, messages on their way to the server
  inbox, outbox,
  \* the server's match (spec.md 4.3 - 4.5)
  srv,
  \* history: the client has seen a terminal state of this match
  terminalObserved,
  \* WordlePage: the useWordleGame hook, the page's own state, its pending
  \* game-over timer, the HTTP request in flight and the server's game
  game, showGameOver, currentGameId, gameOverTimer, request, session,
  \* AuthProvider: its state, and the failure count of the heartbeat effect
  token, user, error, heartbeatFailures,
  \* HTTP requests of AuthProvider in flight
  net,
  \* the server's SessionRegistry (spec.md 4.7), and the logins of this client
  \* and of other clients with the same identity so far
  registry, logins, otherLogins,
  \* history: a heartbeat has failed since the last login
  heartbeatFailed,
  \* useLobbyWebSocket (useState) and the room LobbyPage derives from the
  \* lobby state
  lobbyWs, lobbyState, roomJoinResult, gameStarted, userCurrentRoom,
  \* socket: lobby events on their way to the client, lobby messages on
  \* their way to the server
  lobbyInbox, lobbyOutbox,
  \* the server's Lobby (spec.md 4.6)
  lobby,
  \* a GameSession with any secret and any guesses (spec.md 4.1, 4.3), and
  \* the letter_status the client took from its last response
  scorer,
  \* useLobbyWebSocket: the joinedLobby ref of the mounted hook, its pending
  \* refresh and rejoin timers, and the pending timers of hooks that are
  \* unmounted
  joinedLobby, refreshTimers, staleTimers,
  \* history: the last of join_lobby and leave_lobby the client emitted
  lastLobbyEmit,
  \* the WebSocketService singleton: its socket, its isConnected flag and its
  \* eventListeners, with the number of sockets it created, the outcome of
  \* its last connect and the number of messages it sent
  service,
  \* MultiplayerPage: the intervals of its polling effect that are not cleared
  pollIntervals

mpVars == <<gameState, loading, currentGuess, isSubmitting, showResultModal,
            spells, opponentSpells, spellEffects, timers, alert,
            wsConnected, wsGameState, wsGameEnded, closureGameState, joinedRoom,
            httpSubmit, inbox, outbox, srv, terminalObserved>>

spVars == <<game, showGameOver, currentGameId, gameOverTimer, request, session>>

authVars == <<token, user, error, heartbeatFailures, net, registry, logins, otherLogins,
             heartbeatFailed>>

\* what the pages of the game never touch
lobbyVars == <<lobbyWs, lobbyState, roomJoinResult, gameStarted, userCurrentRoom,
              lobbyInbox, lobbyOutbox, lobby>>

scoreVars == <<scorer>>

refreshVars == <<joinedLobby, refreshTimers, staleTimers, lastLobbyEmit>>

serviceVars == <<service>>

pollVars == <<pollIntervals>>

appVars == <<authVars, lobbyVars, scoreVars, refreshVars, serviceVars, pollVars>>

vars == <<currentPage, mpVars, spVars, appVars>>

(***************************************************************************)
(* The server's match, modelled from spec.md 4.3 - 4.5                     *)
(***************************************************************************)
NoWord == <<>>

Won(guesses) == guesses # <<>> /\ guesses[Len(guesses)] = Secret

PlayerState(guesses, status) ==
  [current_round |-> Len(guesses),
   guesses       |-> guesses,
   guess_results |-> [k \in 1..Len(guesses) |-> score(guesses[k], Secret)],
   letter_status |-> LetterStatus(guesses, Secret),
   won           |-> Won(guesses),
   finished      |-> Won(guesses) \/ Len(guesses) >= MaxRounds \/ status = "finished"]

\* snapshot(): the secret is part of the snapshot only when the match is over
Snapshot(s) ==
  [game_over         |-> s.status = "finished",
   winner            |-> s.winner,
   game_status       |-> s.game_status,
   target_word       |-> IF s.status = "finished" THEN Secret ELSE NoWord,
   disconnect_reason |-> s.reason,
   player            |-> PlayerState(s.guesses, s.status)]

InitSrv ==
  [status      |-> "active",
   winner      |-> "none",
   game_status |-> "in_progress",
   reason      |-> "none",
   guesses     |-> <<>>,
   oppFinished |-> FALSE,
   used        |-> [p \in Players |-> [sp \in SpellNames |-> FALSE]],
   scramble    |-> 0,
   applied     |-> [p \in Players |-> [sp \in SpellNames |-> 0]]]

Min(a, b) == IF a < b THEN a ELSE b

\* WRONG on the server: the first n letters of a submitted word are replaced
Scramble(word, n, rl) == [i \in 1..Len(word) |-> IF i <= n THEN rl ELSE word[i]]

MatchEnd(s, winner, gstatus, reason) ==
  [s EXCEPT !.status = "finished", !.winner = winner,
            !.game_status = gstatus, !.reason = reason]

GameEndedEvent(s) ==
  [type |-> "game_ended", winner_id |-> s.winner, game_status |-> s.game_status,
   target_word |-> Secret, reason |-> s.reason]

StateUpdateEvent(s) == [type |-> "game_state_update", success |-> TRUE, state |-> Snapshot(s)]

SpellCastEvent(sp, caster, target) ==
  [type |-> "spell_cast", spell |-> sp, caster_id |-> caster, target_ids |-> {target}]

GuessResult(ok, cast, sp, err) ==
  [type |-> "guess_result", success |-> ok, spell_cast |-> cast, spell |-> sp, error |-> err]

Failure(s, kind) ==
  [srv |-> s, reply |-> GuessResult(FALSE, FALSE, NoWord, kind), events |-> <<>>]

\* SpellEngine.cast (spec.md 4.4) for the slot of this client
cast(s, sp) ==
  IF s.used[Me][sp] THEN Failure(s, "AlreadyUsed")
  ELSE [srv    |-> [s EXCEPT !.used[Me][sp] = TRUE, !.applied[Me][sp] = @ + 1],
        reply  |-> GuessResult(TRUE, TRUE, sp, "none"),
        events |-> <<SpellCastEvent(sp, Me, Opp)>>]

\* the outcome of the match after a guess of this slot (spec.md 4.5)
Outcome(s) ==
  IF Won(s.guesses) THEN MatchEnd(s, Me, "finished", "none")
  ELSE IF Len(s.guesses) >= MaxRounds /\ s.oppFinished THEN MatchEnd(s, "none", "draw", "none")
  ELSE s

\* submit_guess of this client as the server handles it: a spell name is a
\* cast; a guess is validated, its letters are replaced while the slot is
\* Scrambled, and the replaced word is the one that is scored.
SubmitGuess(s, word, rl) ==
  IF s.status = "finished" \/ PlayerState(s.guesses, s.status).finished
  THEN Failure(s, "GameAlreadyOver")
  ELSE IF word \in SpellNames THEN cast(s, word)
  ELSE IF Len(word) # WordLength \/ word \notin Dictionary THEN Failure(s, "InvalidGuess")
  ELSE LET n  == Min(s.scramble, Len(word))
           s1 == [s EXCEPT !.guesses = Append(@, Scramble(word, n, rl)),
                           !.scramble = @ - n]
           s2 == Outcome(s1)
       IN [srv    |-> s2,
           reply  |-> GuessResult(TRUE, FALSE, NoWord, "none"),
           events |-> <<StateUpdateEvent(s2)>> \o
                      (IF s2.status = "finished" THEN <<GameEndedEvent(s2)>> ELSE <<>>)]

(***************************************************************************)
(* MultiplayerPage and useMultiplayerWebSocket                             *)
(***************************************************************************)
NoSpells == [sp \in SpellNames |-> FALSE]

NoEffects ==
  [flashActive |-> FALSE, wrongActive |-> FALSE, blockActive |-> FALSE,
   wrongLettersRemaining |-> 0]

\* gameState?.player?.finished and gameState?.game_over
Finished(gs) == gs # Null /\ gs.player.finished
GameOver(gs) == gs # Null /\ gs.game_over

currentGameState == IF wsConnected /\ wsGameState # Null THEN wsGameState ELSE gameState

\* the page shows the board (and the result modal) and not the loading screen
Rendered == currentPage = "multiplayer" /\ ~loading /\ currentGameState # Null

\* the on-screen keyboard is on the page and its keys are enabled
KeyboardEnabled ==
  /\ Rendered
  /\ ~currentGameState.player.finished /\ ~currentGameState.game_over
  /\ ~isSubmitting

\* the player of handleGameEnded when the closed-over state has none
DefaultPlayer ==
  [current_round |-> 0, guesses |-> <<>>, guess_results |-> <<>>,
   letter_status |-> <<>>, game_over |-> TRUE, won |-> FALSE, finished |-> TRUE]

\* the events the socket hands to this client: none while it is disconnected
Delivered(events) == IF wsConnected THEN inbox \o events ELSE inbox

\* what the page of the match never touches but for its polling effect
appFrame == UNCHANGED <<authVars, lobbyVars, scoreVars, refreshVars, serviceVars>>

\* the dependencies of the polling effect that change while the page is
\* mounted: wsConnected, and gameState?.game_over and showResultModal, on
\* which fetchGameState depends
PollDeps(connected, gs, modal) ==
  <<connected, IF gs = Null THEN "undefined" ELSE IF gs.game_over THEN "true" ELSE "false",
    modal>>

\* a mutation of the cleanup of the polling effect: the interval is kept
KeepsInterval(count) == count

\* the cleanup of the polling effect: clearInterval of the interval its
\* last run has set, if it has set one
ClearsInterval(count) == IF count > 0 THEN count - 1 ELSE count

\* the run of the polling effect: setInterval unless the socket is connected
SetsInterval(count, connected) == IF connected THEN count ELSE count + 1

\* the polling effect after a step: it runs when the page is mounted and
\* when one of its dependencies has changed, after the cleanup of its last
\* run; the cleanup also runs when the page is unmounted
pollEffect ==
  pollIntervals' =
    IF currentPage' # "multiplayer"
    THEN (IF currentPage = "multiplayer" THEN ClearsInterval(pollIntervals)
          ELSE pollIntervals)
    ELSE IF currentPage # "multiplayer"
    THEN SetsInterval(pollIntervals, wsConnected')
    ELSE IF PollDeps(wsConnected', gameState', showResultModal')
              # PollDeps(wsConnected, gameState, showResultModal)
    THEN SetsInterval(ClearsInterval(pollIntervals), wsConnected')
    ELSE pollIntervals

MpInit ==
  /\ pollIntervals = 0
  /\ gameState = Null
  /\ loading = TRUE
  /\ currentGuess = <<>>
  /\ isSubmitting = FALSE
  /\ showResultModal = FALSE
  /\ spells = NoSpells
  /\ opponentSpells = NoSpells
  /\ spellEffects = NoEffects
  /\ timers = {}
  /\ alert = "none"
  /\ wsConnected = FALSE
  /\ wsGameState = Null
  /\ wsGameEnded = FALSE
  /\ closureGameState = Null
  /\ joinedRoom = FALSE
  /\ httpSubmit = NoWord
  /\ inbox = <<>>
  /\ outbox = <<>>
  /\ srv = InitSrv
  /\ terminalObserved = FALSE

\* a fresh MultiplayerPage (and a fresh match) after the page was left
MpReset ==
  /\ gameState' = Null
  /\ loading' = TRUE
  /\ currentGuess' = <<>>
  /\ isSubmitting' = FALSE
  /\ showResultModal' = FALSE
  /\ spells' = NoSpells
  /\ opponentSpells' = NoSpells
  /\ spellEffects' = NoEffects
  /\ timers' = {}
  /\ alert' = "none"
  /\ wsConnected' = FALSE
  /\ wsGameState' = Null
  /\ wsGameEnded' = FALSE
  /\ closureGameState' = Null
  /\ joinedRoom' = FALSE
  /\ httpSubmit' = NoWord
  /\ inbox' = <<>>
  /\ outbox' = <<>>
  /\ srv' = InitSrv
  /\ terminalObserved' = FALSE

\* what a key handler never touches
keyFrame ==
  UNCHANGED <<appVars, spVars, currentPage, gameState, loading, showResultModal, spells, opponentSpells,
              timers, wsConnected, wsGameState, wsGameEnded, closureGameState,
              joinedRoom, inbox, srv, terminalObserved>>

NoSpell(word) == FALSE

IsSpell(word) == word \in SpellNames

\* a mutation of the length test: no word has a wrong length
AnyLength(word) == FALSE

\* currentGuess.length !== 5
WrongLength(word) == Len(word) # WordLength

\* handleSubmitGuess: the rejections raise an alert and send nothing; an
\* accepted guess goes out on the socket, or over HTTP without a socket.
\* a mutation of the guard of handleSubmitGuess: it never sees a submission
NeverSubmitting == FALSE

\* if (isSubmitting) return, the first test of handleSubmitGuess
Submitting == isSubmitting

handleSubmitGuess ==
  /\ keyFrame
  /\ UNCHANGED spellEffects
  /\ IF Submitting
     THEN UNCHANGED <<alert, currentGuess, isSubmitting, outbox, httpSubmit>>
     ELSE IF currentGuess = <<>>
     THEN alert' = "enter_word" /\ UNCHANGED <<currentGuess, isSubmitting, outbox, httpSubmit>>
     ELSE IF ~IsSpell(currentGuess) /\ WrongLength(currentGuess)
     THEN alert' = "length" /\ UNCHANGED <<currentGuess, isSubmitting, outbox, httpSubmit>>
     ELSE IF ~IsSpell(currentGuess) /\ ~OnlyLetters(currentGuess)
     THEN alert' = "letters" /\ UNCHANGED <<currentGuess, isSubmitting, outbox, httpSubmit>>
     ELSE IF IsSpell(currentGuess) /\ spells[currentGuess]
     THEN /\ alert' = "spell_used"
          /\ currentGuess' = <<>>
          /\ UNCHANGED <<isSubmitting, outbox, httpSubmit>>
     ELSE IF Finished(gameState)
     THEN alert' = "finished" /\ UNCHANGED <<currentGuess, isSubmitting, outbox, httpSubmit>>
     ELSE IF GameOver(gameState)
     THEN alert' = "game_over" /\ UNCHANGED <<currentGuess, isSubmitting, outbox, httpSubmit>>
     ELSE /\ isSubmitting' = TRUE
          /\ IF wsConnected
             THEN /\ outbox' = Append(outbox, currentGuess)
                  /\ currentGuess' = <<>>
                  /\ alert' = "none"
                  /\ UNCHANGED httpSubmit
             ELSE /\ httpSubmit' = currentGuess
                  /\ alert' = "none"
                  /\ UNCHANGED <<currentGuess, outbox>>

\* a mutation of the WRONG bookkeeping: the counter goes down, the flag stays
WrongStepKeepsFlag(prev) == [prev EXCEPT !.wrongLettersRemaining = @ - 1]

\* the setSpellEffects updater of the WRONG branch of handleLetterInput
WrongStep(prev) ==
  [prev EXCEPT !.wrongLettersRemaining = @ - 1,
               !.wrongActive = prev.wrongLettersRemaining - 1 > 0]

\* a mutation of the BLOCK test: the input handlers never see a block
NeverBlocked == FALSE

\* spellEffects.blockActive as the three input handlers test it
Blocked == spellEffects.blockActive

\* a mutation of the test of the end of the game: the inputs never see it
NeverClosed == FALSE

\* currentGameState?.player?.finished || currentGameState?.game_over, the
\* first test of the input handlers and of handleKeyDown
InputClosed == Finished(currentGameState) \/ GameOver(currentGameState)

handleLetterInput(letter) ==
  /\ keyFrame
  /\ UNCHANGED <<isSubmitting, outbox, httpSubmit>>
  /\ IF InputClosed
     THEN UNCHANGED <<currentGuess, spellEffects, alert>>
     ELSE IF Blocked
     THEN UNCHANGED <<currentGuess, spellEffects, alert>>
     ELSE IF spellEffects.wrongActive /\ spellEffects.wrongLettersRemaining > 0
     THEN /\ \E randomLetter \in RandomLetters :
               currentGuess' = Append(currentGuess, randomLetter)
          /\ spellEffects' = WrongStep(spellEffects)
          /\ alert' = "none"
     ELSE IF Len(currentGuess) < WordLength
     THEN /\ currentGuess' = Append(currentGuess, letter)
          /\ alert' = "none"
          /\ UNCHANGED spellEffects
     ELSE UNCHANGED <<currentGuess, spellEffects, alert>>

handleBackspaceInput ==
  /\ keyFrame
  /\ UNCHANGED <<isSubmitting, outbox, httpSubmit, spellEffects>>
  /\ IF InputClosed \/ Blocked
     THEN UNCHANGED <<currentGuess, alert>>
     ELSE /\ currentGuess' = SubSeq(currentGuess, 1, Len(currentGuess) - 1)
          /\ alert' = IF currentGuess = <<>> THEN alert ELSE "none"

handleEnterInput ==
  IF InputClosed \/ Blocked
  THEN UNCHANGED vars
  ELSE handleSubmitGuess

Keys(V, cg) == TypedLetters(V, cg) \cup {"ENTER", "BACKSPACE"}

Dispatch(key) ==
  IF key \in Alphabet THEN handleLetterInput(key)
  ELSE IF key = "ENTER" THEN handleEnterInput
  ELSE IF key = "BACKSPACE" THEN handleBackspaceInput
  ELSE UNCHANGED vars

\* a key of the physical keyboard
handleKeyDown(key) ==
  /\ currentPage = "multiplayer"
  /\ IF InputClosed \/ spellEffects.blockActive
     THEN UNCHANGED vars
     ELSE Dispatch(key)

\* the keydown listener, given the key of the event
keydown(eventKey) == handleKeyDown(toUpperCase(eventKey))

\* a key of the on-screen Keyboard
KeyboardClick(key) ==
  /\ KeyboardEnabled
  /\ Dispatch(key)

\* a mutation of the effects: the timer of the modal is set on any state
SchedulesAlways(ended, ws) == ~showResultModal

\* The three effects of MultiplayerPage that react to the hook's state
\* (part "game ended immediately", "game state updates", "game end event"),
\* run with the showResultModal of the render that scheduled them.
OpensModal(ended, ws) == ended /\ ws # Null /\ ws.game_over /\ ~showResultModal

SchedulesModal(ended, ws) ==
  \/ ws # Null /\ ws.game_over /\ ~GameOver(gameState) /\ ~showResultModal
       /\ ws.target_word # NoWord
  \/ ended /\ ~showResultModal

wsEffects(ended, ws) ==
  /\ showResultModal' = (showResultModal \/ OpensModal(ended, ws))
  /\ alert' = IF OpensModal(ended, ws) /\ ws.disconnect_reason = "opponent_disconnected"
               THEN "opponent_disconnected" ELSE "none"
  /\ timers' = IF SchedulesModal(ended, ws) THEN timers \cup {"showModal"} ELSE timers
  /\ loading' = IF ws # Null THEN FALSE ELSE loading
  /\ terminalObserved' = (terminalObserved \/ GameOver(ws))

handleGameStateUpdate(data) ==
  /\ wsGameState' = IF data.success THEN data.state ELSE wsGameState
  /\ wsEffects(wsGameEnded, wsGameState')
  /\ UNCHANGED <<gameState, currentGuess, isSubmitting, spells, opponentSpells,
                 spellEffects, wsGameEnded>>

\* a mutation of handleGameEnded: the reason of the event is not kept
FinalStateNoReason(base, data) ==
  [game_over         |-> TRUE,
   winner            |-> data.winner_id,
   game_status       |-> data.game_status,
   target_word       |-> data.target_word,
   disconnect_reason |-> "none",
   player            |-> IF base # Null THEN base.player ELSE DefaultPlayer]

\* handleGameEnded builds the final state on the gameState its closure holds
FinalState(base, data) ==
  [game_over         |-> TRUE,
   winner            |-> data.winner_id,
   game_status       |-> data.game_status,
   target_word       |-> data.target_word,
   disconnect_reason |-> data.reason,
   player            |-> IF base # Null THEN base.player ELSE DefaultPlayer]

handleGameEnded(data) ==
  /\ wsGameEnded' = TRUE
  /\ wsGameState' = FinalState(closureGameState, data)
  /\ wsEffects(TRUE, wsGameState')
  /\ UNCHANGED <<gameState, currentGuess, isSubmitting, spells, opponentSpells, spellEffects>>

handleGuessResult(data) ==
  /\ isSubmitting' = FALSE
  /\ spells' = IF data.success /\ data.spell_cast /\ data.spell \in DOMAIN spells
                THEN [spells EXCEPT ![data.spell] = TRUE] ELSE spells
  /\ alert' = IF data.success THEN "none" ELSE data.error
  /\ UNCHANGED <<gameState, loading, currentGuess, showResultModal, opponentSpells,
                 spellEffects, timers, wsGameState, wsGameEnded, terminalObserved>>

\* a mutation of the FLASH effect: it also blocks the input
FlashOnBlocks(prev) == [prev EXCEPT !.flashActive = TRUE, !.blockActive = TRUE]

\* the updater of the FLASH case: prev => ({ ...prev, flashActive: true })
FlashOn(prev) == [prev EXCEPT !.flashActive = TRUE]

handleSpellCast(data) ==
  /\ opponentSpells' = IF data.caster_id # Me
                        THEN [opponentSpells EXCEPT ![data.spell] = TRUE] ELSE opponentSpells
  /\ IF Me \notin data.target_ids
     THEN alert' = "none" /\ UNCHANGED <<spellEffects, timers>>
     ELSE IF data.spell = FLASH
     THEN /\ spellEffects' = FlashOn(spellEffects)
          /\ timers' = timers \cup {"flashOff"}
          /\ alert' = "flash"
     ELSE IF data.spell = WRONG
     THEN /\ spellEffects' = [spellEffects EXCEPT !.wrongActive = TRUE,
                                                  !.wrongLettersRemaining = WrongLetters]
          /\ alert' = "wrong"
          /\ UNCHANGED timers
     ELSE /\ spellEffects' = [spellEffects EXCEPT !.blockActive = TRUE]
          /\ timers' = timers \cup {"blockOff"}
          /\ alert' = "block"
  /\ UNCHANGED <<gameState, loading, currentGuess, isSubmitting, showResultModal, spells,
                 wsGameState, wsGameEnded, terminalObserved>>

\* a mutation of the title: every finished match with a winner is a win
ResultTitleAlwaysWon(gameResult, currentUser) ==
  IF gameResult = Null THEN "Game Over"
  ELSE IF gameResult.game_status = "draw" THEN "Draw!"
  ELSE IF gameResult.game_status = "finished" /\ gameResult.winner # "none"
  THEN "You Won!"
  ELSE IF gameResult.game_status = "abandoned" THEN "Game Abandoned"
  ELSE "Game Over"

\* GameResultModal.getResultDisplay for the user the modal is given
ResultTitle(gameResult, currentUser) ==
  IF gameResult = Null THEN "Game Over"
  ELSE IF gameResult.game_status = "draw" THEN "Draw!"
  ELSE IF gameResult.game_status = "finished" /\ gameResult.winner # "none"
  THEN (IF gameResult.winner = currentUser THEN "You Won!" ELSE "You Lost")
  ELSE IF gameResult.game_status = "abandoned" THEN "Game Abandoned"
  ELSE "Game Over"

\* GameResultModal.getResultDisplay: the title of the result modal of this
\* client
getResultDisplay(gameResult) == ResultTitle(gameResult, Me)

\* the socket delivers the next event to the listener registered for it
Deliver ==
  /\ currentPage = "multiplayer" /\ wsConnected /\ inbox # <<>>
  /\ inbox' = Tail(inbox)
  /\ LET data == Head(inbox)
     IN IF data.type = "guess_result" THEN handleGuessResult(data)
        ELSE IF data.type = "spell_cast" THEN handleSpellCast(data)
        ELSE IF data.type = "game_state_update" THEN handleGameStateUpdate(data)
        ELSE handleGameEnded(data)
  /\ UNCHANGED <<spVars, currentPage, wsConnected, closureGameState, joinedRoom, httpSubmit, outbox, srv>>
  /\ appFrame
  /\ pollEffect

\* setTimeout callbacks
timerFrame ==
  UNCHANGED <<appVars, spVars, currentPage, gameState, loading, currentGuess, isSubmitting, spells, opponentSpells,
              wsConnected, wsGameState, wsGameEnded, closureGameState, joinedRoom,
              httpSubmit, inbox, outbox, srv, terminalObserved>>

\* a mutation of the FLASH timer: its callback leaves the effect on
FlashStays(prev) == prev

\* the updater of the FLASH timer: prev => ({ ...prev, flashActive: false })
FlashOff(prev) == [prev EXCEPT !.flashActive = FALSE]

FlashTimeout ==
  /\ "flashOff" \in timers
  /\ timers' = timers \ {"flashOff"}
  /\ spellEffects' = FlashOff(spellEffects)
  /\ alert' = "none"
  /\ UNCHANGED showResultModal
  /\ timerFrame

BlockTimeout ==
  /\ "blockOff" \in timers
  /\ timers' = timers \ {"blockOff"}
  /\ spellEffects' = [spellEffects EXCEPT !.blockActive = FALSE]
  /\ alert' = "none"
  /\ UNCHANGED showResultModal
  /\ timerFrame

ShowModalTimeout ==
  /\ "showModal" \in timers
  /\ timers' = timers \ {"showModal"}
  /\ showResultModal' = TRUE
  /\ alert' = "none"
  /\ UNCHANGED spellEffects
  /\ UNCHANGED <<spVars, currentPage, gameState, loading, currentGuess, isSubmitting, spells,
                 opponentSpells, wsConnected, wsGameState, wsGameEnded, closureGameState,
                 joinedRoom, httpSubmit, inbox, outbox, srv, terminalObserved>>
  /\ appFrame
  /\ pollEffect

\* The socket connects: the hook registers its listeners, which close over
\* the gameState of this render, and joins the game once per page; the
\* server answers a join with the state of the match.
WsConnect ==
  /\ currentPage = "multiplayer" /\ ~wsConnected
  /\ wsConnected' = TRUE
  /\ closureGameState' = wsGameState
  /\ joinedRoom' = TRUE
  /\ inbox' = IF joinedRoom THEN <<>> ELSE <<StateUpdateEvent(srv)>>
  /\ UNCHANGED <<spVars, currentPage, gameState, loading, currentGuess, isSubmitting, showResultModal,
                 spells, opponentSpells, spellEffects, timers, wsGameState,
                 wsGameEnded, httpSubmit, outbox, srv, terminalObserved>>
  /\ alert' = "none"
  /\ appFrame
  /\ pollEffect

\* The socket drops: what was on its way to the client is lost.
WsDisconnect ==
  /\ currentPage = "multiplayer" /\ wsConnected
  /\ wsConnected' = FALSE
  /\ inbox' = <<>>
  /\ UNCHANGED <<spVars, currentPage, gameState, loading, currentGuess, isSubmitting, showResultModal,
                 spells, opponentSpells, spellEffects, timers, wsGameState,
                 wsGameEnded, closureGameState, joinedRoom, httpSubmit, outbox, srv,
                 terminalObserved>>
  /\ alert' = "none"
  /\ appFrame
  /\ pollEffect

clientFrame ==
  /\ alert' = "none"
  /\ UNCHANGED <<appVars, spVars, currentPage, gameState, loading, currentGuess, isSubmitting, showResultModal,
                 spells, opponentSpells, spellEffects, timers, wsConnected,
                 wsGameState, wsGameEnded, closureGameState, joinedRoom, httpSubmit,
                 terminalObserved>>

Fits(events) == Len(Delivered(events)) <= MaxInbox

\* the server handles a submit_guess of this client
SrvSubmitGuess ==
  /\ outbox # <<>>
  /\ \E rl \in RandomLetters :
       LET r == SubmitGuess(srv, Head(outbox), rl)
       IN /\ Fits(<<r.reply>> \o r.events)
          /\ srv' = r.srv
          /\ inbox' = Delivered(<<r.reply>> \o r.events)
  /\ outbox' = Tail(outbox)
  /\ clientFrame

\* WebSocketService.submitGuess called without the page's input handlers:
\* whatever word it is given goes out while the socket is connected
RawSubmit(word) ==
  /\ currentPage = "multiplayer" /\ wsConnected
  /\ Len(outbox) < MaxInFlight
  /\ outbox' = Append(outbox, word)
  /\ UNCHANGED <<inbox, srv>>
  /\ clientFrame

\* the opponent casts a spell at this client
OppCast(sp) ==
  /\ currentPage = "multiplayer" /\ srv.status = "active" /\ ~srv.used[Opp][sp]
  /\ Fits(<<SpellCastEvent(sp, Opp, Me)>>)
  /\ srv' = [srv EXCEPT !.used[Opp][sp] = TRUE, !.applied[Opp][sp] = @ + 1,
                         !.scramble = IF sp = WRONG THEN WrongLetters ELSE @]
  /\ inbox' = Delivered(<<SpellCastEvent(sp, Opp, Me)>>)
  /\ UNCHANGED outbox
  /\ clientFrame

BothEvents(s) == <<StateUpdateEvent(s), GameEndedEvent(s)>>

EndedOnly(s) == <<GameEndedEvent(s)>>

\* the match ends on the server for a reason that is not a guess of this client
SrvEnds(s, events) ==
  /\ currentPage = "multiplayer" /\ srv.status = "active"
  /\ Fits(events)
  /\ srv' = s
  /\ inbox' = Delivered(events)
  /\ UNCHANGED outbox
  /\ clientFrame

\* the opponent guesses the word first
OppWins ==
  LET s == MatchEnd(srv, Opp, "finished", "none")
  IN SrvEnds(s, BothEvents(s))

\* the opponent uses up its rounds: a draw once this client has too
OppExhausts ==
  /\ ~srv.oppFinished
  /\ LET s == [srv EXCEPT !.oppFinished = TRUE]
     IN IF Len(srv.guesses) >= MaxRounds
        THEN SrvEnds(MatchEnd(s, "none", "draw", "none"),
                     BothEvents(MatchEnd(s, "none", "draw", "none")))
        ELSE /\ currentPage = "multiplayer" /\ srv.status = "active"
             /\ srv' = s
             /\ UNCHANGED <<inbox, outbox>>
             /\ clientFrame

\* the opponent's connection is lost while the match is not over
OppDisconnects ==
  LET s == MatchEnd(srv, Me, "finished", "opponent_disconnected")
  IN SrvEnds(s, EndedOnly(s))

\* GET of the game state answers (the initial load, and the poll while there
\* is no socket)
fetchGameState ==
  /\ currentPage = "multiplayer" /\ (loading \/ pollIntervals > 0)
  /\ gameState' = Snapshot(srv)
  /\ showResultModal' =
       (showResultModal \/ (gameState'.game_over /\ ~GameOver(gameState)))
  /\ loading' = FALSE
  /\ terminalObserved' = (terminalObserved \/ gameState'.game_over)
  /\ alert' = "none"
  /\ UNCHANGED <<spVars, currentPage, currentGuess, isSubmitting, spells, opponentSpells, spellEffects,
                 timers, wsConnected, wsGameState, wsGameEnded, closureGameState,
                 joinedRoom, httpSubmit, inbox, outbox, srv>>
  /\ appFrame
  /\ pollEffect

\* the GET fails
fetchGameStateFails ==
  /\ currentPage = "multiplayer" /\ (loading \/ pollIntervals > 0)
  /\ alert' = "connection_error"
  /\ loading' = FALSE
  /\ UNCHANGED <<appVars, spVars, currentPage, gameState, currentGuess, isSubmitting, showResultModal, spells,
                 opponentSpells, spellEffects, timers, wsConnected, wsGameState,
                 wsGameEnded, closureGameState, joinedRoom, httpSubmit, inbox, outbox,
                 srv, terminalObserved>>

\* the alert handleSubmitGuess raises for the result of an HTTP guess
ResultAlert(s) ==
  IF s.status = "finished" /\ s.winner = Me THEN "you_won"
  ELSE IF s.status = "finished" /\ s.winner = Opp THEN "opponent_won"
  ELSE IF s.game_status = "draw" THEN "draw"
  ELSE IF PlayerState(s.guesses, s.status).finished THEN "waiting_for_opponent"
  ELSE "none"

\* The POST of a guess answers: the server has handled the guess; on success
\* the page clears the input and reloads the game state, on failure apiRequest
\* throws and the message is shown.  handleSubmitGuess was called without a
\* socket, so its finally block ends the submission.
HttpSubmitResponse ==
  /\ currentPage = "multiplayer" /\ httpSubmit # NoWord
  /\ \E rl \in RandomLetters :
       LET r == SubmitGuess(srv, httpSubmit, rl)
       IN /\ Fits(r.events)
          /\ srv' = r.srv
          /\ inbox' = Delivered(r.events)
          /\ IF r.reply.success
             THEN /\ currentGuess' = <<>>
                  /\ gameState' = Snapshot(r.srv)
                  /\ showResultModal' =
                       (showResultModal \/ (gameState'.game_over /\ ~GameOver(gameState)))
                  /\ loading' = FALSE
                  /\ terminalObserved' = (terminalObserved \/ gameState'.game_over)
                  /\ alert' = ResultAlert(r.srv)
             ELSE /\ alert' = r.reply.error
                  /\ UNCHANGED <<currentGuess, gameState, showResultModal, loading,
                                 terminalObserved>>
  /\ httpSubmit' = NoWord
  /\ isSubmitting' = FALSE
  /\ UNCHANGED <<spVars, currentPage, spells, opponentSpells, spellEffects, timers, wsConnected,
                 wsGameState, wsGameEnded, closureGameState, joinedRoom, outbox>>
  /\ appFrame
  /\ pollEffect

\* App: a match starts and the page is mounted
EnterGame ==
  /\ currentPage = "menu"
  /\ currentPage' = "multiplayer"
  /\ MpReset
  /\ UNCHANGED <<spVars>>
  /\ appFrame
  /\ pollEffect

\* Back to menu (loading screen) or Back to lobby (result modal): the page is
\* unmounted, its state and its timers are gone.
LeaveGame ==
  /\ currentPage = "multiplayer"
  /\ loading \/ currentGameState = Null \/ showResultModal
  /\ currentPage' = "menu"
  /\ MpReset
  /\ UNCHANGED <<spVars>>
  /\ appFrame
  /\ pollEffect

(***************************************************************************)
(* WordlePage and useWordleGame; the server's game is modelled from        *)
(* spec.md 4.3                                                             *)
(***************************************************************************)
\* snapshot() of a single-player game: the answer only when it is over
SessionState(guesses) ==
  [current_round |-> Len(guesses),
   guesses       |-> guesses,
   guess_results |-> [k \in 1..Len(guesses) |-> score(guesses[k], Secret)],
   letter_status |-> LetterStatus(guesses, Secret),
   game_over     |-> Won(guesses) \/ Len(guesses) >= MaxRounds,
   won           |-> Won(guesses),
   answer        |-> IF Won(guesses) \/ Len(guesses) >= MaxRounds THEN Secret ELSE NoWord]

InitGame ==
  [gameId |-> 0, currentInput |-> <<>>, initialized |-> FALSE,
   gameState |-> SessionState(<<>>), loading |-> FALSE, error |-> "none"]

SpInit ==
  /\ game = InitGame
  /\ showGameOver = FALSE
  /\ currentGameId = 0
  /\ gameOverTimer = FALSE
  /\ request = Null
  /\ session = <<>>

\* the game-over effect of WordlePage: its condition and its dependencies
GameOverDue(g, shown, shownId) ==
  /\ g.gameState.game_over /\ ~shown
  /\ g.gameId # 0 /\ g.gameState.answer # NoWord
  /\ g.gameId # shownId

EffectDeps(g, shown, shownId) ==
  <<g.gameState.game_over, shown, g.gameId, g.gameState.answer, shownId>>

\* the effect runs again, and clears the timer of its last run, exactly when
\* a dependency changed
gameOverEffect ==
  gameOverTimer' =
    IF EffectDeps(game', showGameOver', currentGameId')
         # EffectDeps(game, showGameOver, currentGameId)
    THEN GameOverDue(game', showGameOver', currentGameId')
    ELSE gameOverTimer

\* the multiplayer page is not mounted
spFrame ==
  UNCHANGED <<appVars, gameState, loading, currentGuess, isSubmitting, showResultModal,
              spells, opponentSpells, spellEffects, timers,
              wsConnected, wsGameState, wsGameEnded, closureGameState, joinedRoom,
              httpSubmit, inbox, outbox, srv, terminalObserved>>

\* a mutation of the guards: no handler sees a request in flight
NeverLoading(g) == FALSE

\* loading as the guards of addLetter, removeLetter and submitGuess and of
\* the handlers of the page test it
Loading(g) == g.loading

\* startNewGame up to its request
startNewGame(g) == [g EXCEPT !.loading = TRUE, !.error = "none", !.currentInput = <<>>]

\* App shows the page; the hook starts the first game
EnterWordle ==
  /\ currentPage = "menu"
  /\ currentPage' = "wordle"
  /\ game' = startNewGame([InitGame EXCEPT !.initialized = TRUE])
  /\ request' = [kind |-> "new_game"]
  /\ showGameOver' = FALSE /\ currentGameId' = 0 /\ gameOverTimer' = FALSE
  /\ session' = <<>>
  /\ alert' = "none"
  /\ spFrame

\* Back to menu: the page is unmounted, an answer still to come is ignored
LeaveWordle ==
  /\ currentPage = "wordle"
  /\ currentPage' = "menu"
  /\ game' = InitGame
  /\ showGameOver' = FALSE /\ currentGameId' = 0 /\ gameOverTimer' = FALSE
  /\ request' = Null /\ session' = <<>>
  /\ alert' = "none"
  /\ spFrame

\* POST /new_game answers
NewGameResponse ==
  /\ currentPage = "wordle" /\ request # Null /\ request.kind = "new_game"
  /\ game.gameId < MaxGames
  /\ session' = <<>>
  /\ game' = [game EXCEPT !.gameState = SessionState(<<>>), !.gameId = @ + 1,
                           !.loading = FALSE]
  /\ request' = Null
  /\ alert' = "none"
  /\ UNCHANGED <<currentPage, showGameOver, currentGameId>>
  /\ spFrame
  /\ gameOverEffect

\* POST /new_game fails
NewGameFails ==
  /\ currentPage = "wordle" /\ request # Null /\ request.kind = "new_game"
  /\ game' = [game EXCEPT !.error = "network", !.loading = FALSE]
  /\ request' = Null
  /\ alert' = "network"
  /\ UNCHANGED <<currentPage, showGameOver, currentGameId, session>>
  /\ spFrame
  /\ gameOverEffect

\* handleNewGame: the button of the header and of the game-over modal
handleNewGame ==
  /\ currentPage = "wordle" /\ ~Loading(game)
  /\ showGameOver' = FALSE
  /\ currentGameId' = 0
  /\ game' = startNewGame(game)
  /\ request' = [kind |-> "new_game"]
  /\ alert' = "none"
  /\ UNCHANGED <<currentPage, session>>
  /\ spFrame
  /\ gameOverEffect

\* submitGuess of the hook up to its request (the page has checked the length)
submitGuess ==
  IF game.gameId = 0 \/ Loading(game) \/ game.gameState.game_over
  THEN UNCHANGED <<game, request, alert>>
  ELSE /\ game' = [game EXCEPT !.loading = TRUE, !.error = "none"]
       /\ request' = [kind |-> "guess", gameId |-> game.gameId,
                      guess |-> game.currentInput]
       /\ alert' = "none"

\* handleKeyPress, and the on-screen Keyboard, whose keys call the same
\* handlers and are disabled under the same condition
handleKeyPress(key) ==
  /\ currentPage = "wordle"
  /\ IF game.gameState.game_over \/ Loading(game)
     THEN UNCHANGED <<game, request, alert>>
     ELSE IF key = "ENTER"
     THEN IF Len(game.currentInput) # WordLength
          THEN alert' = "length" /\ UNCHANGED <<game, request>>
          ELSE submitGuess
     ELSE IF key = "BACKSPACE"
     THEN /\ game' = [game EXCEPT !.currentInput = SubSeq(@, 1, Len(@) - 1)]
          /\ alert' = IF game.currentInput = <<>> THEN alert ELSE "none"
          /\ UNCHANGED request
     ELSE IF Len(game.currentInput) >= WordLength
     THEN UNCHANGED <<game, request, alert>>
     ELSE /\ game' = [game EXCEPT !.currentInput = Append(@, key)]
          /\ alert' = "none"
          /\ UNCHANGED request
  /\ UNCHANGED <<currentPage, showGameOver, currentGameId, gameOverTimer, session>>
  /\ spFrame

\* GameSession.submitGuess (spec.md 4.3)
SessionSubmit(guesses, word) ==
  IF Won(guesses) \/ Len(guesses) >= MaxRounds
  THEN [ok |-> FALSE, guesses |-> guesses, error |-> "GameAlreadyOver"]
  ELSE IF Len(word) # WordLength \/ word \notin Dictionary
  THEN [ok |-> FALSE, guesses |-> guesses, error |-> "InvalidGuess"]
  ELSE [ok |-> TRUE, guesses |-> Append(guesses, word), error |-> "none"]

\* a mutation of the catch block of submitGuess: the typed input is dropped
RejectGuessClearsInput(g, err) ==
  [g EXCEPT !.error = err, !.loading = FALSE, !.currentInput = <<>>]

\* the catch and finally blocks of submitGuess: setError, setLoading(false)
RejectGuess(g, err) == [g EXCEPT !.error = err, !.loading = FALSE]

\* POST /game/<id>/guess answers: the hook takes the new state and clears
\* the input, or keeps both and reports the error, which the page shows
SubmitResponse ==
  /\ currentPage = "wordle" /\ request # Null /\ request.kind = "guess"
  /\ LET r == SessionSubmit(session, request.guess)
     IN /\ session' = r.guesses
        /\ IF r.ok
           THEN /\ game' = [game EXCEPT !.gameState = SessionState(r.guesses),
                                        !.currentInput = <<>>, !.loading = FALSE]
                /\ alert' = "none"
           ELSE /\ game' = RejectGuess(game, r.error)
                /\ alert' = r.error
  /\ request' = Null
  /\ UNCHANGED <<currentPage, showGameOver, currentGameId>>
  /\ spFrame
  /\ gameOverEffect

\* the timer of the game-over effect fires: the modal opens
GameOverTimeout ==
  /\ currentPage = "wordle" /\ gameOverTimer
  /\ showGameOver' = TRUE
  /\ currentGameId' = game.gameId
  /\ gameOverTimer' = FALSE
  /\ alert' = "none"
  /\ UNCHANGED <<currentPage, game, request, session>>
  /\ spFrame

\* the single-player page
Wordle(V) ==
  \/ EnterWordle
  \/ LeaveWordle
  \/ NewGameResponse
  \/ NewGameFails
  \/ handleNewGame
  \/ \E key \in Keys(V, game.currentInput) : handleKeyPress(key)
  \/ SubmitResponse
  \/ GameOverTimeout

\* the player at the keyboards, typing words of V
Typing(V) ==
  \/ \E key \in Keys(V, currentGuess) : handleKeyDown(key)
  \/ \E key \in Keys(V, currentGuess) : KeyboardClick(key)

\* the page, its timers and its requests
PageNext ==
  \/ EnterGame
  \/ LeaveGame
  \/ Deliver
  \/ WsConnect
  \/ SrvSubmitGuess
  \/ fetchGameState

\* the socket drops, and what the page does without it
Fallback ==
  \/ WsDisconnect
  \/ fetchGameStateFails
  \/ HttpSubmitResponse

\* the ways a match ends that are not a guess of this client
Endings ==
  \/ OppWins
  \/ OppExhausts
  \/ OppDisconnects
  \/ ShowModalTimeout

\* the spells of the opponent and the timers that end their effects
OppSpells(S) ==
  \/ \E sp \in S : OppCast(sp)
  \/ FlashTimeout
  \/ BlockTimeout

(***************************************************************************)
(* AuthProvider, and the server's SessionRegistry modelled from            *)
(* spec.md 4.7                                                             *)
(***************************************************************************)
NoToken == 0

Live(reg, tok) == \E s \in reg.sessions : s.token = tok

SessionsOf(reg, id) == {s \in reg.sessions : s.identity = id}

InitRegistry == [sessions |-> {}, evictions |-> <<>>, issued |-> 0]

\* register(identity): a new session with a fresh token; a live session of
\* the identity is evicted
register(reg, id) ==
  LET prior == {s.token : s \in SessionsOf(reg, id)}
  IN [sessions  |-> (reg.sessions \ SessionsOf(reg, id))
                      \cup {[identity |-> id, token |-> reg.issued + 1]},
      evictions |-> [k \in 1..(reg.issued + 1) |->
                      IF k = reg.issued + 1 THEN 0
                      ELSE IF k \in prior THEN reg.evictions[k] + 1
                      ELSE reg.evictions[k]],
      issued    |-> reg.issued + 1]

\* logout(token): the session of the token, if any, is removed
unregister(reg, tok) == [reg EXCEPT !.sessions = {s \in @ : s.token # tok}]

AuthInit ==
  /\ token = NoToken
  /\ user = "none"
  /\ error = "none"
  /\ heartbeatFailures = 0
  /\ net = <<>>
  /\ registry = InitRegistry
  /\ logins = 0
  /\ otherLogins = 0
  /\ heartbeatFailed = FALSE

authFrame ==
  UNCHANGED <<currentPage, mpVars, spVars, lobbyVars, scoreVars, refreshVars, serviceVars,
              pollVars>>

Remove(seq, i) == SubSeq(seq, 1, i - 1) \o SubSeq(seq, i + 1, Len(seq))

Pending(kind) == {i \in 1..Len(net) : net[i].kind = kind}

\* login up to its request; the login form is shown while no user is set
login ==
  /\ user = "none" /\ Pending("login") = {}
  /\ logins < MaxLogins /\ Len(net) < MaxInFlight
  /\ logins' = logins + 1
  /\ error' = "none"
  /\ net' = Append(net, [kind |-> "login", token |-> NoToken])
  /\ UNCHANGED <<token, user, heartbeatFailures, registry, otherLogins, heartbeatFailed>>
  /\ authFrame

\* the login is refused or the request fails
LoginFails ==
  \E i \in Pending("login") :
    /\ error' = "login_failed"
    /\ net' = Remove(net, i)
    /\ UNCHANGED <<token, user, heartbeatFailures, registry, logins, otherLogins,
                   heartbeatFailed>>
    /\ authFrame

\* a mutation of the heartbeat effect: the interval is never cleared
AlwaysRunning == TRUE

\* the heartbeat effect has an interval only while token and user are set
IntervalRunning == token # NoToken /\ user # "none"

\* the interval of the heartbeat effect fires
HeartbeatTick ==
  /\ IntervalRunning
  /\ Len(net) < MaxInFlight
  /\ net' = Append(net, [kind |-> "heartbeat", token |-> token])
  /\ UNCHANGED <<token, user, error, heartbeatFailures, registry, logins, otherLogins,
                 heartbeatFailed>>
  /\ authFrame

\* heartbeat(identity) succeeds for a live session
HeartbeatOk ==
  \E i \in Pending("heartbeat") :
    /\ Live(registry, net[i].token)
    /\ heartbeatFailures' = 0
    /\ net' = Remove(net, i)
    /\ UNCHANGED <<token, user, error, registry, logins, otherLogins, heartbeatFailed>>
    /\ authFrame

\* a mutation of the heartbeat callback: a failure never forces a logout
NeverDue(failures) == FALSE

\* the forced logout of the heartbeat callback is due
LogoutDue(failures) == failures >= MAX_HEARTBEAT_FAILURES

\* sendHeartbeat throws (UnknownSession, or the request failed or timed out):
\* the callback counts the failure and, when the logout is due, calls the
\* logout of its closure, which sends logoutUser with the token it holds
HeartbeatFails ==
  \E i \in Pending("heartbeat") :
    /\ heartbeatFailures' = Min(heartbeatFailures + 1, MAX_HEARTBEAT_FAILURES)
    /\ heartbeatFailed' = TRUE
    /\ net' = IF LogoutDue(heartbeatFailures + 1)
              THEN Append(Remove(net, i), [kind |-> "logout", token |-> net[i].token])
              ELSE Remove(net, i)
    /\ UNCHANGED <<token, user, error, registry, logins, otherLogins>>
    /\ authFrame

\* logout up to its request (the user's own logout)
logout ==
  /\ token # NoToken /\ user # "none"
  /\ Len(net) < MaxInFlight
  /\ net' = Append(net, [kind |-> "logout", token |-> token])
  /\ UNCHANGED <<token, user, error, heartbeatFailures, registry, logins, otherLogins,
                 heartbeatFailed>>
  /\ authFrame

\* a mutation of the finally block of logout: the user is kept
ClearsTokenOnly(tok, usr) == [token |-> NoToken, user |-> usr]

\* the finally block of logout: setToken(null); setUser(null)
ClearsAuth(tok, usr) == [token |-> NoToken, user |-> "none"]

\* the tab is hidden: the beacon logs the session out on the server, the
\* client keeps its state
handleVisibilityChange ==
  /\ token # NoToken /\ user # "none"
  /\ Live(registry, token)
  /\ registry' = unregister(registry, token)
  /\ UNCHANGED <<token, user, error, heartbeatFailures, net, logins, otherLogins,
                 heartbeatFailed>>
  /\ authFrame

\* another client logs in with the identity of this client
OtherLogin ==
  /\ otherLogins < MaxOtherLogins
  /\ otherLogins' = otherLogins + 1
  /\ registry' = register(registry, Me)
  /\ UNCHANGED <<token, user, error, heartbeatFailures, net, logins, heartbeatFailed>>
  /\ authFrame

(***************************************************************************)
(* LobbyPage and useLobbyWebSocket; the server's Lobby is modelled from    *)
(* spec.md 4.6.  The pages are shown to a user that is logged in.          *)
(***************************************************************************)
RoomIds == {"room1", "room2"}
max_players == 2
NoRoom == "none"

\* the rooms whose player list holds the identity
RoomsOf(rooms, id) == {r \in RoomIds : id \in rooms[r]}

InitLobby == [rooms |-> [r \in RoomIds |-> {}], subscribed |-> FALSE]

\* joinRoom(identity, roomId): fails with AlreadyInRoom or RoomFull
joinRoom(lob, id, roomId) ==
  IF RoomsOf(lob.rooms, id) # {}
  THEN [ok |-> FALSE, error |-> "AlreadyInRoom", lobby |-> lob]
  ELSE IF Cardinality(lob.rooms[roomId]) >= max_players
  THEN [ok |-> FALSE, error |-> "RoomFull", lobby |-> lob]
  ELSE [ok |-> TRUE, error |-> "none",
        lobby |-> [lob EXCEPT !.rooms[roomId] = @ \cup {id}]]

\* leaveRoom(identity): the identity leaves the room it is in
leaveRoom(lob, id) ==
  IF RoomsOf(lob.rooms, id) = {}
  THEN [ok |-> FALSE, error |-> "NotInRoom", lobby |-> lob]
  ELSE [ok |-> TRUE, error |-> "none",
        lobby |-> [lob EXCEPT !.rooms = [r \in RoomIds |-> @[r] \ {id}]]]

\* the events of the lobby
LobbyStateUpdate(lob) ==
  [type |-> "lobby_state_update", rooms |-> lob.rooms, success |-> TRUE, error |-> "none"]

RoomResult(type, res) ==
  [type |-> type, rooms |-> res.lobby.rooms, success |-> res.ok, error |-> res.error]

GameStarted(lob) ==
  [type |-> "game_started", rooms |-> lob.rooms, success |-> TRUE, error |-> "none"]

\* the lobby snapshot for the subscribers, and game_started for the players
\* of a room whose second slot was filled
Broadcast(before, after) ==
  (IF after.subscribed THEN <<LobbyStateUpdate(after)>> ELSE <<>>)
  \o (IF \E r \in RoomsOf(after.rooms, Me) :
           /\ Cardinality(after.rooms[r]) = max_players
           /\ Cardinality(before.rooms[r]) < max_players
      THEN <<GameStarted(after)>> ELSE <<>>)

LobbyMessage(type, roomId) == [type |-> type, from |-> Me, room |-> roomId]

LobbyInit ==
  /\ lobbyWs = FALSE
  /\ lobbyState = Null
  /\ roomJoinResult = Null
  /\ gameStarted = FALSE
  /\ userCurrentRoom = NoRoom
  /\ lobbyInbox = <<>>
  /\ lobbyOutbox = <<>>
  /\ lobby = InitLobby
  /\ joinedLobby = FALSE
  /\ refreshTimers = {}
  /\ staleTimers = {}
  /\ lastLobbyEmit = "none"

\* what the lobby page never touches
pagesFrame == UNCHANGED <<mpVars, spVars, authVars, scoreVars, serviceVars, pollVars>>

\* and what only the joining and the leaving of the lobby touch
lobbyFrame == pagesFrame /\ UNCHANGED refreshVars

\* the page is unmounted: the state of the hook and of the page is gone
LobbyReset ==
  /\ lobbyWs' = FALSE
  /\ lobbyState' = Null
  /\ roomJoinResult' = Null
  /\ gameStarted' = FALSE
  /\ userCurrentRoom' = NoRoom

\* the cleanup of the listener effect: leaveLobby while connected, which
\* emits leave_lobby when the ref says the hook has joined.  The timers of
\* the hook and of the page are not cleared and outlive them (two timers of
\* a kind of unmounted hooks are kept as one).
LobbyCleanup ==
  /\ lobbyOutbox' = IF lobbyWs /\ joinedLobby
                    THEN Append(lobbyOutbox, LobbyMessage("leave_lobby", NoRoom))
                    ELSE lobbyOutbox
  /\ lastLobbyEmit' = IF lobbyWs /\ joinedLobby THEN "leave_lobby" ELSE lastLobbyEmit
  /\ joinedLobby' = FALSE
  /\ staleTimers' = staleTimers \cup refreshTimers
  /\ refreshTimers' = {}

\* App: the lobby page is mounted
EnterLobby ==
  /\ currentPage = "menu"
  /\ currentPage' = "lobby"
  /\ UNCHANGED lobbyVars
  /\ lobbyFrame

\* joinLobby: join_lobby goes out unless the ref says the hook has joined
joinLobby(joined) ==
  /\ lobbyOutbox' = IF joined THEN lobbyOutbox
                    ELSE Append(lobbyOutbox, LobbyMessage("join_lobby", NoRoom))
  /\ lastLobbyEmit' = IF joined THEN lastLobbyEmit ELSE "join_lobby"

\* useWebSocket reports the connection; the listener effect joins the lobby
\* and the mount effect of the page starts the timer of the refresh
LobbyConnect ==
  /\ currentPage = "lobby"
  /\ ~lobbyWs
  /\ Len(lobbyOutbox) < MaxLobbyOutbox
  /\ lobbyWs' = TRUE
  /\ joinLobby(joinedLobby)
  /\ joinedLobby' = TRUE
  /\ refreshTimers' = refreshTimers \cup {"refresh"}
  /\ UNCHANGED <<currentPage, lobbyState, roomJoinResult, gameStarted, userCurrentRoom,
                 lobbyInbox, lobby, staleTimers>>
  /\ pagesFrame

\* the timer of the mount effect runs refreshLobbyState: leave_lobby if the
\* hook has joined, and the timer of the rejoin
RefreshTimeout ==
  /\ "refresh" \in refreshTimers
  /\ Len(lobbyOutbox) < MaxLobbyOutbox
  /\ lobbyOutbox' = IF joinedLobby
                    THEN Append(lobbyOutbox, LobbyMessage("leave_lobby", NoRoom))
                    ELSE lobbyOutbox
  /\ lastLobbyEmit' = IF joinedLobby THEN "leave_lobby" ELSE lastLobbyEmit
  /\ joinedLobby' = FALSE
  /\ refreshTimers' = (refreshTimers \ {"refresh"}) \cup {"rejoin"}
  /\ UNCHANGED <<currentPage, lobbyWs, lobbyState, roomJoinResult, gameStarted,
                 userCurrentRoom, lobbyInbox, lobby, staleTimers>>
  /\ pagesFrame

\* the timer of refreshLobbyState runs joinLobby
RejoinTimeout ==
  /\ "rejoin" \in refreshTimers
  /\ Len(lobbyOutbox) < MaxLobbyOutbox
  /\ joinLobby(joinedLobby)
  /\ joinedLobby' = TRUE
  /\ refreshTimers' = refreshTimers \ {"rejoin"}
  /\ UNCHANGED <<currentPage, lobbyWs, lobbyState, roomJoinResult, gameStarted,
                 userCurrentRoom, lobbyInbox, lobby, staleTimers>>
  /\ pagesFrame

\* the same timers of a hook that is unmounted: its cleanup has left the ref
\* at false, its callbacks hold the isConnected of their render, and the
\* socket of the service is still connected
StaleRefreshTimeout ==
  /\ "refresh" \in staleTimers
  /\ staleTimers' = (staleTimers \ {"refresh"}) \cup {"rejoin"}
  /\ UNCHANGED <<currentPage, lobbyVars, joinedLobby, refreshTimers, lastLobbyEmit>>
  /\ pagesFrame

StaleRejoinTimeout ==
  /\ "rejoin" \in staleTimers
  /\ Len(lobbyOutbox) < MaxLobbyOutbox
  /\ joinLobby(FALSE)
  /\ staleTimers' = staleTimers \ {"rejoin"}
  /\ UNCHANGED <<currentPage, lobbyWs, lobbyState, roomJoinResult, gameStarted,
                 userCurrentRoom, lobbyInbox, lobby, joinedLobby, refreshTimers>>
  /\ pagesFrame

\* the room list is rendered
LobbyRendered == currentPage = "lobby" /\ lobbyWs /\ lobbyState # Null

isFull(roomId) == Cardinality(lobbyState.rooms[roomId]) >= max_players

\* disabled={isFull || userCurrentRoom}
JoinDisabled(roomId) == isFull(roomId) \/ userCurrentRoom # NoRoom

\* a click on the Join button of a room
handleJoinRoom(roomId) ==
  /\ LobbyRendered
  /\ ~JoinDisabled(roomId)
  /\ userCurrentRoom = NoRoom
  /\ lobbyWs
  /\ Len(lobbyOutbox) < MaxLobbyOutbox
  /\ lobbyOutbox' = Append(lobbyOutbox, LobbyMessage("join_room", roomId))
  /\ UNCHANGED <<currentPage, lobbyWs, lobbyState, roomJoinResult, gameStarted,
                 userCurrentRoom, lobbyInbox, lobby>>
  /\ lobbyFrame

\* a click on the Leave button, which the current room shows
handleLeaveRoom ==
  /\ LobbyRendered
  /\ userCurrentRoom # NoRoom
  /\ lobbyWs
  /\ Len(lobbyOutbox) < MaxLobbyOutbox
  /\ lobbyOutbox' = Append(lobbyOutbox, LobbyMessage("leave_room", NoRoom))
  /\ UNCHANGED <<currentPage, lobbyWs, lobbyState, roomJoinResult, gameStarted,
                 userCurrentRoom, lobbyInbox, lobby>>
  /\ lobbyFrame

\* a mutation of userRoom: the page never finds its user in a room
userRoomNone(rooms) == NoRoom

\* rooms.find(room => room.players.some(player => player.id === user.id))
userRoom(rooms) ==
  IF RoomsOf(rooms, Me) = {} THEN NoRoom ELSE CHOOSE r \in RoomsOf(rooms, Me) : TRUE

\* an event of the lobby reaches the listeners of the hook, and the effects
\* of the page run; without a mounted page there is no listener
LobbyDeliver ==
  /\ lobbyInbox # <<>>
  /\ lobbyInbox' = Tail(lobbyInbox)
  /\ LET ev == Head(lobbyInbox)
     IN IF currentPage # "lobby" \/ ~lobbyWs
        THEN UNCHANGED <<lobbyState, roomJoinResult, gameStarted, userCurrentRoom>>
        ELSE CASE ev.type = "lobby_state_update" ->
                    /\ lobbyState' = [rooms |-> ev.rooms]
                    /\ userCurrentRoom' = userRoom(ev.rooms)
                    /\ UNCHANGED <<roomJoinResult, gameStarted>>
               [] ev.type = "game_started" ->
                    /\ gameStarted' = TRUE
                    /\ UNCHANGED <<lobbyState, roomJoinResult, userCurrentRoom>>
               [] OTHER ->
                    /\ roomJoinResult' = [success |-> ev.success, error |-> ev.error]
                    /\ UNCHANGED <<lobbyState, gameStarted, userCurrentRoom>>
  /\ UNCHANGED <<currentPage, lobbyWs, lobbyOutbox, lobby>>
  /\ lobbyFrame

\* the timer of the result effect
clearRoomJoinResult ==
  /\ roomJoinResult # Null
  /\ roomJoinResult' = Null
  /\ UNCHANGED <<currentPage, lobbyWs, lobbyState, gameStarted, userCurrentRoom,
                 lobbyInbox, lobbyOutbox, lobby>>
  /\ lobbyFrame

\* the timer of the game-start effect: onStartMultiplayer mounts the page of
\* the match, the lobby page is unmounted
StartMultiplayerTimeout ==
  /\ currentPage = "lobby"
  /\ gameStarted
  /\ Len(lobbyOutbox) < MaxLobbyOutbox
  /\ currentPage' = "multiplayer"
  /\ MpReset
  /\ LobbyCleanup
  /\ LobbyReset
  /\ UNCHANGED <<lobbyInbox, lobby>>
  /\ UNCHANGED <<spVars, authVars, scoreVars, serviceVars>>
  /\ pollEffect

\* Back to menu: the lobby page is unmounted
LobbyBackToMenu ==
  /\ currentPage = "lobby"
  /\ Len(lobbyOutbox) < MaxLobbyOutbox
  /\ currentPage' = "menu"
  /\ LobbyCleanup
  /\ LobbyReset
  /\ UNCHANGED <<lobbyInbox, lobby>>
  /\ pagesFrame

\* the server takes the next message of the client
Handles(type) == lobbyOutbox # <<>> /\ Head(lobbyOutbox).type = type

Sends(events) ==
  /\ Len(lobbyInbox) + Len(events) <= MaxLobbyInbox
  /\ lobbyInbox' = lobbyInbox \o events

clientFrameLobby ==
  /\ UNCHANGED <<currentPage, lobbyWs, lobbyState, roomJoinResult, gameStarted,
                 userCurrentRoom>>
  /\ lobbyFrame

SrvJoinLobby ==
  /\ Handles("join_lobby")
  /\ lobbyOutbox' = Tail(lobbyOutbox)
  /\ lobby' = [lobby EXCEPT !.subscribed = TRUE]
  /\ Sends(<<LobbyStateUpdate(lobby)>>)
  /\ clientFrameLobby

SrvLeaveLobby ==
  /\ Handles("leave_lobby")
  /\ lobbyOutbox' = Tail(lobbyOutbox)
  /\ lobby' = [lobby EXCEPT !.subscribed = FALSE]
  /\ UNCHANGED lobbyInbox
  /\ clientFrameLobby

SrvJoinRoom ==
  /\ Handles("join_room")
  /\ lobbyOutbox' = Tail(lobbyOutbox)
  /\ LET res == joinRoom(lobby, Me, Head(lobbyOutbox).room)
     IN /\ lobby' = res.lobby
        /\ Sends(<<RoomResult("room_join_result", res)>>
                 \o (IF res.ok THEN Broadcast(lobby, res.lobby) ELSE <<>>))
  /\ clientFrameLobby

SrvLeaveRoom ==
  /\ Handles("leave_room")
  /\ lobbyOutbox' = Tail(lobbyOutbox)
  /\ LET res == leaveRoom(lobby, Me)
     IN /\ lobby' = res.lobby
        /\ Sends(<<RoomResult("room_leave_result", res)>>
                 \o (IF res.ok THEN Broadcast(lobby, res.lobby) ELSE <<>>))
  /\ clientFrameLobby

\* the other player asks for a room, or leaves the room it is in
OppJoinRoom(roomId) ==
  LET res == joinRoom(lobby, Opp, roomId)
  IN /\ lobby' = res.lobby
     /\ Sends(IF res.ok THEN Broadcast(lobby, res.lobby) ELSE <<>>)
     /\ UNCHANGED lobbyOutbox
     /\ clientFrameLobby

OppLeaveRoom ==
  LET res == leaveRoom(lobby, Opp)
  IN /\ lobby' = res.lobby
     /\ Sends(IF res.ok THEN Broadcast(lobby, res.lobby) ELSE <<>>)
     /\ UNCHANGED lobbyOutbox
     /\ clientFrameLobby

(***************************************************************************)
(* A GameSession with any secret and any guesses (spec.md 4.1, 4.3), and   *)
(* the Keyboard that shows its letter status                               *)
(***************************************************************************)
\* The words of the scorer: what score gives a letter depends only on where
\* that letter stands in the guess and in the secret, so two letters give
\* every case of a word of five letters.
ScoreLetters == {"A", "B"}
ScoreWords == [Positions -> ScoreLetters]

NewSession(secret) ==
  [secret |-> secret, guesses |-> <<>>, letter_status |-> LetterStatus(<<>>, secret)]

\* a mutation of the Keyboard: the classes of HIT and PRESENT are swapped
getKeyClassNameSwapped(status) ==
  CASE status = "HIT" -> "keyboard__key--present"
    [] status = "PRESENT" -> "keyboard__key--hit"
    [] status = "MISS" -> "keyboard__key--miss"
    [] OTHER -> "keyboard__key--unused"

\* Keyboard.getKeyClassName, given letterStatus[letter] || UNUSED
getKeyClassName(status) ==
  CASE status = "HIT" -> "keyboard__key--hit"
    [] status = "PRESENT" -> "keyboard__key--present"
    [] status = "MISS" -> "keyboard__key--miss"
    [] OTHER -> "keyboard__key--unused"

\* the class the Keyboard gives the key of a letter
KeyClass(sess, letter) == getKeyClassName(sess.letter_status[letter])

ScoreInit == scorer = NewSession(Secret)

\* the session accepts a guess, and the client takes the state of the
\* response (setGameState(response.state))
ScoreGuess(word) ==
  /\ Len(scorer.guesses) < MaxScored
  /\ scorer' = [scorer EXCEPT
                  !.guesses = Append(@, word),
                  !.letter_status = LetterStatus(Append(scorer.guesses, word), scorer.secret)]
  /\ UNCHANGED <<currentPage, mpVars, spVars, authVars, lobbyVars, refreshVars, serviceVars,
                 pollVars>>

(***************************************************************************)
(* WebSocketService; the socket is the one of socket.io-client, which      *)
(* raises its events only on a socket that was not disconnected by hand    *)
(***************************************************************************)
ServiceEvents == {"connect", "game_ended"}
Callbacks == {"cb1", "cb2"}
Methods == {"joinRoom", "leaveRoom", "submitGuess", "joinLobby", "emit"}

NoListeners == [event \in ServiceEvents |-> <<>>]

\* the constructor
ServiceInit ==
  service = [socket |-> Null, isConnected |-> FALSE, eventListeners |-> NoListeners,
             created |-> 0, resolved |-> "none", sent |-> 0]

serviceFrame ==
  UNCHANGED <<currentPage, mpVars, spVars, authVars, lobbyVars, scoreVars, refreshVars,
              pollVars>>

\* isConnectedToServer
isConnectedToServer(svc) ==
  svc.isConnected /\ svc.socket # Null /\ svc.socket.connected

\* a mutation of disconnect: the finally block leaves the flag as it is
DisconnectedKeepsFlag(svc) ==
  IF svc.socket = Null THEN svc
  ELSE [svc EXCEPT !.socket = Null, !.eventListeners = NoListeners]

\* the service after disconnect(): with a socket, the listeners are removed
\* and cleared, the socket is disconnected and dropped, the flag is reset
Disconnected(svc) ==
  IF svc.socket = Null THEN svc
  ELSE [svc EXCEPT !.socket = Null, !.isConnected = FALSE,
                   !.eventListeners = NoListeners]

\* connect(token): resolves at once on a connected socket; otherwise
\* disconnects what there is and creates a socket, which connects later
connect ==
  /\ IF service.socket # Null /\ service.socket.connected
     THEN service' = [service EXCEPT !.resolved = "true"]
     ELSE /\ service.created < MaxSockets
          /\ service' = [Disconnected(service) EXCEPT
                           !.socket = [connected |-> FALSE],
                           !.created = @ + 1,
                           !.resolved = "pending"]
  /\ serviceFrame

disconnect ==
  /\ service' = Disconnected(service)
  /\ serviceFrame

\* the socket raises connect (also after it reconnected by itself)
SocketConnect ==
  /\ service.socket # Null /\ ~service.socket.connected
  /\ service' = [service EXCEPT
                   !.socket = [connected |-> TRUE],
                   !.isConnected = TRUE,
                   !.resolved = IF @ = "pending" THEN "true" ELSE @]
  /\ serviceFrame

\* the socket raises connect_error
SocketConnectError ==
  /\ service.socket # Null /\ ~service.socket.connected
  /\ service' = [service EXCEPT
                   !.isConnected = FALSE,
                   !.resolved = IF @ = "pending" THEN "rejected" ELSE @]
  /\ serviceFrame

\* the socket raises disconnect: the connection is lost
SocketDisconnect ==
  /\ service.socket # Null /\ service.socket.connected
  /\ service' = [service EXCEPT !.socket = [connected |-> FALSE], !.isConnected = FALSE]
  /\ serviceFrame

\* the list without the first occurrence of the callback
Without(listeners, callback) ==
  IF \E i \in 1..Len(listeners) : listeners[i] = callback
  THEN LET index == CHOOSE i \in 1..Len(listeners) :
                      /\ listeners[i] = callback
                      /\ \A j \in 1..(i - 1) : listeners[j] # callback
       IN SubSeq(listeners, 1, index - 1) \o SubSeq(listeners, index + 1, Len(listeners))
  ELSE listeners

\* on(event, callback)
on(event, callback) ==
  /\ IF service.socket = Null
     THEN UNCHANGED service
     ELSE /\ Len(service.eventListeners[event]) < MaxListeners
          /\ service' = [service EXCEPT !.eventListeners[event] = Append(@, callback)]
  /\ serviceFrame

\* off(event, callback)
off(event, callback) ==
  /\ IF service.socket = Null
     THEN UNCHANGED service
     ELSE service' = [service EXCEPT !.eventListeners[event] = Without(@, callback)]
  /\ serviceFrame

\* joinRoom, leaveRoom, submitGuess, joinLobby and emit: socket.emit when
\* isConnectedToServer
send(method) ==
  /\ IF isConnectedToServer(service)
     THEN /\ service.sent < MaxSent
          /\ service' = [service EXCEPT !.sent = @ + 1]
     ELSE UNCHANGED service
  /\ serviceFrame

(***************************************************************************)
(* AppContent: the page that is rendered, handleLogin, handleLogout and    *)
(* the redirect effect.                                                    *)
(***************************************************************************)
\* isAuthenticated: !!user
isAuthenticated == user # "none"

\* what AppContent renders once the AuthProvider has ended its loading: the
\* login page unless a user is set and currentPage is another page
AppContent == IF ~isAuthenticated \/ currentPage = "login" THEN "login" ELSE currentPage

\* the state of the single-player page is gone with the page
SpReset ==
  /\ game' = InitGame
  /\ showGameOver' = FALSE /\ currentGameId' = 0 /\ gameOverTimer' = FALSE
  /\ request' = Null /\ session' = <<>>

\* setCurrentPage(target): the page that was shown, if it is another one,
\* is unmounted, and the alert is hidden
RouteTo(target) ==
  /\ currentPage' = target
  /\ IF currentPage = "multiplayer" /\ target # "multiplayer"
     THEN MpReset
     ELSE /\ alert' = "none"
          /\ UNCHANGED <<gameState, loading, currentGuess, isSubmitting, showResultModal,
                         spells, opponentSpells, spellEffects, timers, wsConnected,
                         wsGameState, wsGameEnded, closureGameState, joinedRoom,
                         httpSubmit, inbox, outbox, srv, terminalObserved>>
  /\ IF currentPage = "wordle" /\ target # "wordle" THEN SpReset ELSE UNCHANGED spVars
  /\ IF currentPage = "lobby" /\ target # "lobby"
     THEN LobbyCleanup /\ LobbyReset /\ UNCHANGED <<lobbyInbox, lobby>>
     ELSE UNCHANGED <<lobbyVars, refreshVars>>
  /\ UNCHANGED <<scoreVars, serviceVars>>
  /\ pollEffect

\* handleLogin after login has resolved: setCurrentPage('menu')
AfterLogin(page) == "menu"

\* a mutation of handleLogout and of the redirect effect: the page is kept
StaysOnPage(page) == page

\* handleLogout after logout has resolved, and the redirect effect once no
\* user is set: setCurrentPage('login')
AfterLogout(page) == "login"

\* POST /auth/login answers with a token: the server has registered the
\* session; setToken and setUser start the heartbeat effect anew, and
\* handleLogin, which awaits login, goes on to setCurrentPage('menu')
LoginResponse ==
  \E i \in Pending("login") :
    /\ registry' = register(registry, Me)
    /\ token' = registry'.issued
    /\ user' = Me
    /\ heartbeatFailures' = 0
    /\ heartbeatFailed' = FALSE
    /\ net' = Remove(net, i)
    /\ UNCHANGED <<error, logins, otherLogins>>
    /\ RouteTo(AfterLogin(currentPage))

\* logoutUser returns or throws (the request may not have reached the
\* server): the finally block of logout clears the client's state; then
\* handleLogout, which awaits logout, calls setCurrentPage('login'), and
\* after the forced logout of the heartbeat the redirect effect does
LogoutResponse ==
  \E i \in Pending("logout"), reached \in BOOLEAN :
    /\ registry' = IF reached THEN unregister(registry, net[i].token) ELSE registry
    /\ token' = ClearsAuth(token, user).token
    /\ user' = ClearsAuth(token, user).user
    /\ error' = "none"
    /\ heartbeatFailures' = 0
    /\ net' = Remove(net, i)
    /\ UNCHANGED <<logins, otherLogins, heartbeatFailed>>
    /\ RouteTo(AfterLogout(currentPage))

\* the redirect effect: no user is set and currentPage is not 'login'
RedirectToLogin ==
  /\ ~isAuthenticated /\ currentPage # "login"
  /\ RouteTo(AfterLogout(currentPage))
  /\ UNCHANGED authVars

\* the modes of the menu that the model follows
Modes == {"wordle", "multiplayer"}

\* Game mode selection handler of the menu page, which is rendered
handleGameModeSelect(mode) ==
  /\ AppContent = "menu"
  /\ IF mode = "wordle" THEN EnterWordle ELSE EnterGame

\* Back to menu handler of the page of a game, which is rendered
handleBackToMenu ==
  /\ AppContent \in Modes
  /\ IF currentPage = "wordle" THEN LeaveWordle ELSE LeaveGame

Init ==
  /\ currentPage = "menu" /\ MpInit /\ SpInit /\ AuthInit /\ LobbyInit /\ ScoreInit
  /\ ServiceInit

\* A match without spells, and the single-player page.
Next ==
  \/ Typing({CRANE, CRANK, CRANS})
  \/ PageNext
  \/ Fallback
  \/ Endings
  \/ Wordle({CRANE, CRANK, CRANS})

Spec == Init /\ [][Next]_vars

\* A match in which this client casts spells.
NextCast ==
  \/ Typing(SpellNames)
  \/ PageNext
  \/ Fallback

SpecCast == Init /\ [][NextCast]_vars

\* A match in which the opponent casts spells at this client.
NextEffects ==
  \/ Typing({CRANE})
  \/ PageNext
  \/ OppSpells(SpellNames)

SpecEffects == Init /\ [][NextEffects]_vars

\* A client that may send a guess without going through its input handlers,
\* in a match in which the opponent casts WRONG.
NextBypass ==
  \/ RawSubmit(CRANE)
  \/ Typing({CRANE})
  \/ PageNext
  \/ OppCast(WRONG)

SpecBypass == Init /\ [][NextBypass]_vars

\* The AuthProvider of this client, the server's sessions, and another
\* client of the same identity.  Every request is answered or times out
\* (apiRequest aborts after requestTimeout), and the interval keeps firing.
NextAuth ==
  \/ login
  \/ LoginResponse
  \/ LoginFails
  \/ HeartbeatTick
  \/ HeartbeatOk
  \/ HeartbeatFails
  \/ logout
  \/ LogoutResponse
  \/ handleVisibilityChange
  \/ OtherLogin

SpecAuth ==
  /\ Init /\ [][NextAuth]_vars
  /\ WF_vars(HeartbeatTick)
  /\ WF_vars(HeartbeatOk \/ HeartbeatFails)
  /\ WF_vars(LogoutResponse)
  /\ WF_vars(LoginResponse \/ LoginFails)

\* The same match with the timers of the effects firing: a callback of
\* setTimeout that is pending is run (after 3 seconds).
SpecExpiry ==
  /\ Init /\ [][NextEffects]_vars
  /\ WF_vars(FlashTimeout)
  /\ WF_vars(BlockTimeout)

\* A match that may end while an effect of the opponent's spells is active.
NextLate ==
  \/ Typing({CRANE})
  \/ PageNext
  \/ Endings
  \/ OppSpells({FLASH, BLOCK})

SpecLate == Init /\ [][NextLate]_vars

\* A match that may end while this client types a word or a spell.
NextOver ==
  \/ Typing({CRANE, FLASH})
  \/ PageNext
  \/ Fallback
  \/ Endings

SpecOver == Init /\ [][NextOver]_vars

\* A player who presses a letter key, a digit, Enter and Backspace at any
\* time and clicks Enter on the screen, in a match in which the opponent
\* casts WRONG.
EventKeys == {"e", "1", "Enter", "Backspace"}

NextKeys ==
  \/ \E eventKey \in EventKeys : keydown(eventKey)
  \/ KeyboardClick("ENTER")
  \/ PageNext
  \/ Fallback
  \/ OppCast(WRONG)

SpecKeys == Init /\ [][NextKeys]_vars

\* A match in which this client types a word while the socket connects and
\* drops.  What is on its way arrives: the socket delivers the events it
\* holds, the server handles the messages it got, and the HTTP guess is
\* answered (apiRequest answers or throws).
NextSubmit ==
  \/ Typing({CRANE})
  \/ PageNext
  \/ Fallback

SpecSubmit ==
  /\ Init /\ [][NextSubmit]_vars
  /\ WF_vars(Deliver)
  /\ WF_vars(SrvSubmitGuess)
  /\ WF_vars(HttpSubmitResponse)

\* The scorer with every secret and every sequence of guesses.
InitScore ==
  /\ currentPage = "menu" /\ MpInit /\ SpInit /\ AuthInit /\ LobbyInit /\ ServiceInit
  /\ scorer \in {NewSession(secret) : secret \in ScoreWords}

NextScore == \E word \in ScoreWords : ScoreGuess(word)

SpecScore == InitScore /\ [][NextScore]_vars

\* The lobby page of this client, the server's lobby, and the other player.
NextLobby ==
  \/ EnterLobby
  \/ LobbyConnect
  \/ \E roomId \in RoomIds : handleJoinRoom(roomId)
  \/ handleLeaveRoom
  \/ LobbyDeliver
  \/ clearRoomJoinResult
  \/ StartMultiplayerTimeout
  \/ LeaveGame
  \/ LobbyBackToMenu
  \/ SrvJoinLobby
  \/ SrvLeaveLobby
  \/ SrvJoinRoom
  \/ SrvLeaveRoom
  \/ \E roomId \in RoomIds : OppJoinRoom(roomId)
  \/ OppLeaveRoom

SpecLobby == Init /\ [][NextLobby]_vars

\* The lobby page mounted and unmounted, with the timers of its refresh.
NextRefresh ==
  \/ EnterLobby
  \/ LobbyConnect
  \/ RefreshTimeout
  \/ RejoinTimeout
  \/ StaleRefreshTimeout
  \/ StaleRejoinTimeout
  \/ LobbyDeliver
  \/ LobbyBackToMenu
  \/ SrvJoinLobby
  \/ SrvLeaveLobby

SpecRefresh == Init /\ [][NextRefresh]_vars

\* The app from its first render: the redirect effect, logins, the pages of
\* the menu, the heartbeat with its forced logout, and the user's logout.
NextApp ==
  \/ RedirectToLogin
  \/ login
  \/ LoginResponse
  \/ LoginFails
  \/ \E mode \in Modes : handleGameModeSelect(mode)
  \/ handleBackToMenu
  \/ HeartbeatTick
  \/ HeartbeatOk
  \/ HeartbeatFails
  \/ logout
  \/ LogoutResponse

SpecApp == Init /\ [][NextApp]_vars

\* The WebSocketService under any sequence of calls and of events of its
\* socket.
NextService ==
  \/ connect
  \/ disconnect
  \/ SocketConnect
  \/ SocketConnectError
  \/ SocketDisconnect
  \/ \E event \in ServiceEvents, callback \in Callbacks : on(event, callback)
  \/ \E event \in ServiceEvents, callback \in Callbacks : off(event, callback)
  \/ \E method \in Methods : send(method)

SpecService == Init /\ [][NextService]_vars

(***************************************************************************)
(* C1: a spell is cast at most once per caster and match                   *)
(***************************************************************************)
\* this step sends a submission of word to the server, by socket or by HTTP
Emits(word) ==
  \/ Len(outbox') > Len(outbox) /\ outbox'[Len(outbox')] = word
  \/ httpSubmit = NoWord /\ httpSubmit' = word

\* this step is a submission the page does not ignore
Submits(word) ==
  /\ currentPage = "multiplayer" /\ currentGuess = word /\ ~isSubmitting
  /\ ~Finished(currentGameState) /\ ~GameOver(currentGameState)
  /\ ~spellEffects.blockActive
  /\ handleSubmitGuess

\* C1: while the page of a match is shown, a spell marked used stays marked
\* used; a submission of a used spell is rejected with the "already used"
\* alert, clears the input and sends nothing; and the server applies the
\* effect of each spell of a caster at most once.
C1_CastAtMostOnce ==
  [][(currentPage = "multiplayer" /\ currentPage' = "multiplayer") =>
       \A sp \in SpellNames :
         /\ spells[sp] => spells'[sp] /\ ~Emits(sp)
         /\ (spells[sp] /\ Submits(sp)) =>
              (alert' = "spell_used" /\ currentGuess' = <<>> /\ outbox' = outbox
               /\ httpSubmit' = httpSubmit /\ srv' = srv)
         /\ \A p \in Players : srv'.applied[p][sp] <= 1]_vars

\* C1 witness: FLASH was cast once and a second submission of it was rejected
C1_Witness ==
  /\ spells[FLASH] /\ alert = "spell_used"
  /\ srv.applied[Me][FLASH] = 1 /\ srv.used[Me][FLASH]

(***************************************************************************)
(* C2: the countdown of the WRONG effect                                   *)
(***************************************************************************)
\* the page takes input: no BLOCK is active and the player has not finished
AcceptsInput ==
  /\ currentPage = "multiplayer"
  /\ ~Finished(currentGameState) /\ ~GameOver(currentGameState)
  /\ ~spellEffects.blockActive

\* this step delivers a WRONG spell that targets this player
WrongArrives ==
  /\ currentPage = "multiplayer" /\ wsConnected /\ inbox # <<>>
  /\ Head(inbox).type = "spell_cast" /\ Head(inbox).spell = WRONG
  /\ Me \in Head(inbox).target_ids
  /\ inbox' = Tail(inbox) /\ wsConnected'

\* C2 as stated: once the five letters after a WRONG spell were replaced
\* (the counter is back at 0), every letter input the page takes is appended
\* to the guess unmodified.
C2_LaterLettersAppended ==
  (AcceptsInput /\ opponentSpells[WRONG] /\ spellEffects.wrongLettersRemaining = 0) =>
    \A l \in TypedLetters({CRANE}, currentGuess) :
      ENABLED (handleLetterInput(l) /\ currentGuess' = Append(currentGuess, l))

\* C2 amended: a WRONG spell that targets the player sets the counter to 5;
\* while the counter is above 0 every letter input the page takes is replaced
\* by a random letter and lowers the counter by exactly 1; once the counter is
\* 0 a letter input is never replaced: it is appended unmodified while the
\* guess has fewer than 5 letters and is dropped otherwise.  The counter is
\* never negative and wrongActive holds exactly when it is above 0.
C2_WrongCountdown ==
  [][(currentPage = "multiplayer" /\ currentPage' = "multiplayer") =>
       /\ spellEffects'.wrongLettersRemaining \in 0..5
       /\ spellEffects'.wrongActive <=> (spellEffects'.wrongLettersRemaining > 0)
       /\ WrongArrives => spellEffects'.wrongLettersRemaining = 5
       /\ \A l \in AllLetters \ RandomLetters :
            (AcceptsInput /\ handleLetterInput(l)) =>
              IF spellEffects.wrongLettersRemaining > 0
              THEN /\ \E rl \in RandomLetters : currentGuess' = Append(currentGuess, rl)
                   /\ spellEffects'.wrongLettersRemaining =
                        spellEffects.wrongLettersRemaining - 1
              ELSE /\ spellEffects'.wrongLettersRemaining = 0
                   /\ currentGuess' = IF Len(currentGuess) < 5
                                      THEN Append(currentGuess, l) ELSE currentGuess]_vars

\* C2 witness: five letters were replaced, one was deleted, and the next
\* letter typed was appended as typed
C2_Witness ==
  /\ opponentSpells[WRONG] /\ spellEffects.wrongLettersRemaining = 0
  /\ ~spellEffects.wrongActive
  /\ currentGuess = <<"Q", "Q", "Q", "Q", FillerLetter>>

(***************************************************************************)
(* C3: BLOCK rejects every input                                           *)
(***************************************************************************)
\* C3: while blockActive is true no step of the page changes currentGuess or
\* sends a submission; in particular a letter, backspace or enter input, of
\* the physical or of the on-screen keyboard, leaves currentGuess as it is
\* and emits nothing.
C3_BlockRejectsInput ==
  [][(currentPage = "multiplayer" /\ currentPage' = "multiplayer"
        /\ spellEffects.blockActive) =>
       /\ currentGuess' = currentGuess
       /\ Len(outbox') <= Len(outbox)
       /\ httpSubmit' = httpSubmit
       /\ \A key \in AllLetters \cup {"ENTER", "BACKSPACE"} :
            (handleKeyDown(key) \/ KeyboardClick(key)) =>
              UNCHANGED <<currentGuess, outbox, httpSubmit, isSubmitting>>]_vars

\* C3 witness: a complete guess is typed, the keyboard is enabled, the socket
\* is up, and the BLOCK effect is active
C3_Witness ==
  /\ KeyboardEnabled /\ wsConnected /\ ~isSubmitting
  /\ spellEffects.blockActive /\ currentGuess = CRANE

(***************************************************************************)
(* C4: the letters of a Scrambled player are replaced by the server        *)
(***************************************************************************)
\* the page's input handler leaves a typed letter as it was typed
ClientKeepsLetters ==
  \A l \in AllLetters \ RandomLetters :
    (AcceptsInput /\ handleLetterInput(l)) =>
      currentGuess' \in {currentGuess, Append(currentGuess, l)}

\* a guess scored in this step has its affected letters replaced by the
\* server, whatever word went out on the socket
ScoredScrambled ==
  Len(srv'.guesses) = Len(srv.guesses) + 1 =>
    LET scored == srv'.guesses[Len(srv'.guesses)]
        n      == Min(srv.scramble, WordLength)
    IN /\ outbox # <<>> /\ Len(scored) = Len(Head(outbox))
       /\ \A i \in 1..Len(scored) :
            IF i <= n THEN scored[i] \in RandomLetters ELSE scored[i] = Head(outbox)[i]
       /\ srv'.scramble = srv.scramble - n
       /\ srv.scramble > 0 => scored # Head(outbox)

\* C4: the letters of a player under a WRONG effect are replaced by the
\* server and not by the client: the page's input handler appends a typed
\* letter as typed, and every guess scored under an active WRONG effect has
\* its affected letters replaced, also when the word was sent without the
\* input handler.
C4_EngineNotClient ==
  [][currentPage' = "multiplayer" => (ClientKeepsLetters /\ ScoredScrambled)]_vars

\* C4 witness: the page's input handler replaced no letter (its counter is
\* still 5, the input is empty), a word was sent on the socket all the
\* same, and the guess that was scored consists of replaced letters
C4_Witness ==
  /\ spellEffects.wrongLettersRemaining = 5 /\ currentGuess = <<>>
  /\ srv.guesses = <<<<"Q", "Q", "Q", "Q", "Q">>>>
  /\ srv.scramble = 0

(***************************************************************************)
(* C5: the opponent disconnects                                            *)
(***************************************************************************)
\* this step hands the page the game_ended event of an opponent's disconnect
DisconnectArrives ==
  /\ currentPage = "multiplayer" /\ wsConnected /\ inbox # <<>>
  /\ Head(inbox).type = "game_ended"
  /\ Head(inbox).reason = "opponent_disconnected"
  /\ inbox' = Tail(inbox) /\ wsConnected'

\* C5: the server ends a match for a lost connection only while the match
\* is active, with the remaining player as winner; and the step in which the
\* remaining player's page receives that game_ended event leaves it with
\* game_over true, disconnect_reason = opponent_disconnected, itself as the
\* winner ("You Won!" in the modal) and the result modal open.
C5_DisconnectWin ==
  [][/\ (srv.reason # "opponent_disconnected" /\ srv'.reason = "opponent_disconnected") =>
          (srv.status = "active" /\ srv'.status = "finished" /\ srv'.winner = Me)
     /\ DisconnectArrives =>
          /\ wsGameEnded' /\ wsGameState' # Null /\ currentGameState' = wsGameState'
          /\ wsGameState'.game_over
          /\ wsGameState'.disconnect_reason = "opponent_disconnected"
          /\ wsGameState'.winner = Me
          /\ getResultDisplay(currentGameState') = "You Won!"
          /\ showResultModal' /\ ~loading'
          /\ ~showResultModal => alert' = "opponent_disconnected"]_vars

\* C5 witness: the event of the disconnect was handled: the modal is open
\* with the timer of the later effects still pending, and the page holds
\* the final state with this player as winner
C5_Witness ==
  /\ currentPage = "multiplayer" /\ wsGameEnded /\ showResultModal
  /\ "showModal" \in timers /\ alert = "opponent_disconnected"
  /\ wsGameState # Null /\ wsGameState.disconnect_reason = "opponent_disconnected"
  /\ wsGameState.winner = Me /\ srv.guesses = <<>>

(***************************************************************************)
(* C6: the secret word is displayed only at a terminal state               *)
(***************************************************************************)
\* the page of the match holds a state of the match that is over
HoldsTerminal == GameOver(wsGameState) \/ GameOver(gameState)

\* C6: in every reachable state the multiplayer result modal is open only
\* after game_over or game_ended was observed for the match of the page, and
\* a state that carries the target word is a terminal state; the
\* single-player game-over modal opens only in a step from a state in which
\* gameOver is true and the answer is present, and an answer the page holds
\* belongs to a game that is over.
C6_SecretOnlyAtEnd ==
  /\ [](/\ (currentPage = "multiplayer" /\ showResultModal) =>
             (terminalObserved /\ HoldsTerminal)
        /\ \A gs \in {gameState, wsGameState} :
             (gs # Null /\ gs.target_word # NoWord) => gs.game_over
        /\ game.gameState.answer # NoWord => game.gameState.game_over)
  /\ [][/\ (~showGameOver /\ showGameOver') =>
             /\ game.gameState.game_over /\ game.gameState.answer # NoWord
             /\ game'.gameState.game_over /\ game'.gameState.answer # NoWord
        /\ (~showResultModal /\ showResultModal') =>
             (terminalObserved' /\ (GameOver(wsGameState') \/ GameOver(gameState')))]_vars

\* C6 witness: the result modal of a match is open on a page that shows the
\* target word of a match that is over
C6_Witness ==
  /\ Rendered /\ showResultModal /\ terminalObserved
  /\ currentGameState.game_over /\ currentGameState.target_word = Secret

(***************************************************************************)
(* C10: a rejected guess changes nothing                                   *)
(***************************************************************************)
\* the server finds the word invalid
Invalid(word) == SubmitGuess(srv, word, "Q").reply.error = "InvalidGuess"

\* C10: a guess rejected as InvalidGuess leaves the guesses, the round, the
\* letter status and the terminal flag as they were, on the server and in
\* the client, and the error is shown to the player: in single-player mode
\* when the POST is answered (the typed input stays in place), in a match
\* when the server handles the submit_guess, when the page receives the
\* failed guess_result, and when the HTTP fallback is answered.
C10_RejectionKeepsState ==
  [][/\ (/\ currentPage = "wordle" /\ currentPage' = "wordle"
          /\ request # Null /\ request.kind = "guess" /\ request' = Null
          /\ SessionSubmit(session, request.guess).error = "InvalidGuess") =>
            /\ game'.gameState = game.gameState /\ session' = session
            /\ game'.currentInput = request.guess
            /\ game'.error = "InvalidGuess" /\ alert' = "InvalidGuess"
            /\ UNCHANGED <<showGameOver, currentGameId>>
     /\ (/\ currentPage = "multiplayer" /\ currentPage' = "multiplayer"
          /\ outbox # <<>> /\ outbox' = Tail(outbox) /\ Invalid(Head(outbox))) =>
            /\ srv' = srv
            /\ wsConnected => inbox'[Len(inbox')].error = "InvalidGuess"
     /\ (/\ currentPage = "multiplayer" /\ wsConnected /\ wsConnected'
          /\ inbox # <<>> /\ inbox' = Tail(inbox)
          /\ Head(inbox).type = "guess_result" /\ Head(inbox).error = "InvalidGuess") =>
            /\ UNCHANGED <<gameState, wsGameState, wsGameEnded, showResultModal, srv>>
            /\ currentGameState' = currentGameState
            /\ alert' = "InvalidGuess"
     /\ (/\ currentPage = "multiplayer" /\ currentPage' = "multiplayer"
          /\ httpSubmit # NoWord /\ httpSubmit' = NoWord /\ Invalid(httpSubmit)) =>
            /\ UNCHANGED <<gameState, wsGameState, showResultModal, currentGuess, srv>>
            /\ alert' = "InvalidGuess"]_vars

\* C10 witness: the single-player page shows the error of a rejected guess
\* and still holds the word that was typed, with no guess on the board
C10_Witness ==
  /\ currentPage = "wordle" /\ game.error = "InvalidGuess" /\ alert = "InvalidGuess"
  /\ game.currentInput = CRANS /\ game.gameState.guesses = <<>>
  /\ ~game.gameState.game_over /\ ~game.loading

(***************************************************************************)
(* C7: one live session per identity                                       *)
(***************************************************************************)
LoggedOut == token = NoToken /\ user = "none"

\* the session of this client was evicted by a later login of its identity
Superseded ==
  /\ token # NoToken /\ user # "none"
  /\ ~Live(registry, token) /\ registry.evictions[token] = 1

\* C7: an identity never has two live sessions; a login of an identity
\* with a live session ends that session, and no session is evicted twice;
\* a heartbeat of an evicted session does not succeed, and the client whose
\* session was superseded ends logged out (token and user null).
C7_OneLiveSession ==
  /\ [](/\ Cardinality(SessionsOf(registry, Me)) <= 1
        /\ \A k \in 1..registry.issued : registry.evictions[k] <= 1)
  /\ [][/\ registry'.issued = registry.issued + 1 =>
             /\ SessionsOf(registry', Me) = {[identity |-> Me, token |-> registry'.issued]}
             /\ \A s \in SessionsOf(registry, Me) : registry'.evictions[s.token] = 1
        /\ \A i \in Pending("heartbeat") :
             (~Live(registry, net[i].token) /\ net' = Remove(net, i)) =>
               heartbeatFailures' # 0]_vars
  /\ (Superseded ~> LoggedOut)

\* C7 witness: the first session of this client was evicted by the login of
\* another client, whose session is live, and this client is logged out
\* after a failed heartbeat
C7_Witness ==
  /\ LoggedOut /\ heartbeatFailed /\ logins = 1 /\ otherLogins = 1
  /\ registry.issued = 2 /\ registry.evictions[1] = 1 /\ Live(registry, 2)

(***************************************************************************)
(* C8: a failed heartbeat logs the client out                              *)
(***************************************************************************)
\* this step sends a heartbeat
SendsHeartbeat ==
  /\ Len(net') = Len(net) + 1
  /\ net'[Len(net')].kind = "heartbeat"

\* C8 as stated, its last part: once a heartbeat has failed the client
\* sends no further heartbeat until the next login.
C8_NoFurtherHeartbeat ==
  [][heartbeatFailed => ~SendsHeartbeat]_vars

\* C8 amended: a single failed heartbeat starts the logout; the client then
\* reaches the state with token and user null, whether or not the logout
\* reaches the server; and a heartbeat is sent only while token and user are
\* set, so none is sent from then on until the next login.
C8_FailureLogsOut ==
  /\ [][/\ (~heartbeatFailed /\ heartbeatFailed') =>
             \E i \in Pending("heartbeat") :
               net' = Append(Remove(net, i), [kind |-> "logout", token |-> net[i].token])
        /\ (\E i \in Pending("logout") : net' = Remove(net, i)) =>
             (token' = NoToken /\ user' = "none")
        /\ SendsHeartbeat =>
             (token # NoToken /\ user # "none" /\ net'[Len(net')].token = token)]_vars
  /\ (heartbeatFailed ~> LoggedOut)

\* C8 witness: a heartbeat failed, the logout did not reach the server (the
\* session is still live there), and the client is logged out with nothing
\* in flight
C8_Witness ==
  /\ LoggedOut /\ heartbeatFailed /\ net = <<>>
  /\ logins = 1 /\ otherLogins = 0 /\ Live(registry, 1)

(***************************************************************************)
(* C9: an identity occupies at most one room                               *)
(***************************************************************************)
\* this client emits join_room
EmitsJoin ==
  \E roomId \in RoomIds :
    lobbyOutbox' = Append(lobbyOutbox, LobbyMessage("join_room", roomId))

\* the server takes a join_room of this client
JoinHandled == Handles("join_room") /\ lobbyOutbox' = Tail(lobbyOutbox)

\* C9 as stated, its first part: the client emits join_room only while its
\* identity is in no room of the lobby.
C9_JoinOnlyOutsideRooms == [][EmitsJoin => RoomsOf(lobby.rooms, Me) = {}]_vars

\* C9 amended: no identity is ever in two rooms, and joinRoom of an identity
\* that is in a room fails and leaves the lobby as it is; the client emits
\* join_room only while its last lobby snapshot shows it in no room; the
\* server answers a join_room of a client that is in a room with the failure
\* AlreadyInRoom and changes no room.
C9_OneRoomPerIdentity ==
  /\ [](\A id \in Players :
         /\ Cardinality(RoomsOf(lobby.rooms, id)) <= 1
         /\ RoomsOf(lobby.rooms, id) # {} =>
              \A roomId \in RoomIds :
                /\ ~joinRoom(lobby, id, roomId).ok
                /\ joinRoom(lobby, id, roomId).lobby = lobby)
  /\ [][EmitsJoin => (lobbyState # Null /\ RoomsOf(lobbyState.rooms, Me) = {})]_vars
  /\ [][(JoinHandled /\ RoomsOf(lobby.rooms, Me) # {}) =>
         /\ lobby' = lobby
         /\ lobbyInbox' = Append(lobbyInbox,
              [type |-> "room_join_result", rooms |-> lobby.rooms,
               success |-> FALSE, error |-> "AlreadyInRoom"])]_vars

\* C9 witness: the page shows the failure of a join this client sent while
\* the server had it in a room, and the server still has it in one room
C9_Witness ==
  /\ currentPage = "lobby"
  /\ roomJoinResult = [success |-> FALSE, error |-> "AlreadyInRoom"]
  /\ Cardinality(RoomsOf(lobby.rooms, Me)) = 1

(***************************************************************************)
(* C11: nothing is submitted and nothing is typed once the game is over    *)
(***************************************************************************)
\* the game state the page shows has player.finished or game_over
ShownOver ==
  /\ currentPage = "multiplayer"
  /\ currentGameState # Null
  /\ currentGameState.player.finished \/ currentGameState.game_over

\* a guess or a spell leaves the client, on the socket or over HTTP
Submission ==
  \/ Len(outbox') > Len(outbox)
  \/ httpSubmit' # NoWord /\ httpSubmit' # httpSubmit

\* a key of the physical or of the on-screen keyboard is handled
KeyStep == \E key \in AllLetters \cup {"ENTER", "BACKSPACE"} :
             handleKeyDown(key) \/ KeyboardClick(key)

\* C11: while the game state the page shows has player.finished or game_over,
\* no step sends a guess or a spell, on the socket or over HTTP, and the
\* handling of a key leaves currentGuess as it is (no key handler is
\* enabled that changes it).
C11_NoInputWhenOver ==
  /\ [](ShownOver => ~ENABLED (KeyStep /\ currentGuess' # currentGuess))
  /\ [](ShownOver => ~ENABLED (KeyStep /\ Submission))
  /\ [][ShownOver => ~Submission]_vars

\* C11 witness: the match ended while a complete word was in the input; no
\* submission is under way and no BLOCK is active, so only the test of the
\* end of the game keeps the word from being sent
C11_Witness ==
  /\ ShownOver /\ Rendered
  /\ Len(currentGuess) = WordLength
  /\ ~isSubmitting /\ ~spellEffects.blockActive
  /\ ~GameOver(gameState) /\ ~Finished(gameState)
  /\ outbox = <<>> /\ httpSubmit = NoWord

(***************************************************************************)
(* C12: what the client sends is a word of five capital letters            *)
(***************************************************************************)
FiveCapitals(word) == Len(word) = WordLength /\ OnlyLetters(word)

\* Enter is handled and reaches handleSubmitGuess, which is not busy
EnterSubmits ==
  /\ handleKeyDown("ENTER") \/ KeyboardClick("ENTER")
  /\ ~InputClosed /\ ~spellEffects.blockActive /\ ~isSubmitting

\* C12: every word on its way to the server, on the socket or over HTTP, has
\* exactly five letters A-Z; Enter on an input that is no spell and has
\* another length raises a warning and sends nothing.
C12_FiveLettersSent ==
  /\ [](/\ \A i \in 1..Len(outbox) : FiveCapitals(outbox[i])
        /\ httpSubmit # NoWord => FiveCapitals(httpSubmit))
  /\ [][(EnterSubmits /\ ~IsSpell(currentGuess) /\ Len(currentGuess) # WordLength) =>
         /\ alert' \in {"enter_word", "length"}
         /\ UNCHANGED <<outbox, httpSubmit, currentGuess>>]_vars

\* C12 witness: Enter on an input of six letters (the sixth came from the
\* WRONG effect) raised the warning of the length and nothing was sent
C12_Witness ==
  /\ currentPage = "multiplayer"
  /\ alert = "length"
  /\ Len(currentGuess) > WordLength
  /\ outbox = <<>> /\ httpSubmit = NoWord

(***************************************************************************)
(* C13: every effect that was switched on is switched off                  *)
(***************************************************************************)
\* the countdown of WRONG reaches zero in this step
CountdownEnds ==
  /\ spellEffects.wrongLettersRemaining > 0
  /\ spellEffects'.wrongLettersRemaining = 0

\* C13: an active FLASH or BLOCK has its timer pending, and with the timers
\* firing flashActive and blockActive always become false again; the step
\* in which the countdown of WRONG reaches zero clears wrongActive, and
\* wrongActive is never true with a countdown of zero.
C13_EffectsExpire ==
  /\ [](spellEffects.flashActive => "flashOff" \in timers)
  /\ [](spellEffects.blockActive => "blockOff" \in timers)
  /\ [](spellEffects.wrongActive => spellEffects.wrongLettersRemaining > 0)
  /\ [][CountdownEnds => ~spellEffects'.wrongActive]_vars
  /\ spellEffects.flashActive ~> ~spellEffects.flashActive
  /\ spellEffects.blockActive ~> ~spellEffects.blockActive

\* C13 witness: the opponent has cast its three spells at this client, the
\* two timers have fired and five letters were replaced: no effect is left
C13_Witness ==
  /\ currentPage = "multiplayer"
  /\ \A sp \in SpellNames : opponentSpells[sp]
  /\ spellEffects = NoEffects
  /\ timers = {}
  /\ Len(currentGuess) = WrongLetters

(***************************************************************************)
(* C14: the timers of the effects and the end of the match                 *)
(***************************************************************************)
\* the callback of the timer of FLASH or of BLOCK runs
ExpiryFires == FlashTimeout \/ BlockTimeout

\* C14: once the page holds a game state with game_over, no callback of a
\* FLASH or BLOCK timer runs and changes the spell effects.
C14_TimersCancelled ==
  [][(currentPage = "multiplayer" /\ GameOver(currentGameState)) =>
       ~(ExpiryFires /\ spellEffects' # spellEffects)]_vars

\* C14 witness: the match is over on the page, the result modal is open and
\* the timer of FLASH is still pending
C14_Witness ==
  /\ currentPage = "multiplayer"
  /\ GameOver(currentGameState) /\ showResultModal
  /\ spellEffects.flashActive /\ "flashOff" \in timers

(***************************************************************************)
(* C15: FLASH changes what is shown and nothing else                       *)
(***************************************************************************)
\* this step delivers a FLASH spell that targets this player
FlashArrives ==
  /\ currentPage = "multiplayer" /\ wsConnected /\ inbox # <<>>
  /\ Head(inbox).type = "spell_cast" /\ Head(inbox).spell = FLASH
  /\ Me \in Head(inbox).target_ids
  /\ inbox' = Tail(inbox) /\ wsConnected'

\* the spell effects but for flashActive
OtherEffects(effects) ==
  <<effects.wrongActive, effects.blockActive, effects.wrongLettersRemaining>>

\* what the activation and the expiry of FLASH leave alone
FlashFrame ==
  /\ OtherEffects(spellEffects') = OtherEffects(spellEffects)
  /\ UNCHANGED <<currentGuess, spells, gameState, wsGameState, isSubmitting, outbox,
                 httpSubmit, srv>>

GameResults ==
  [game_status : {"in_progress", "finished", "draw", "abandoned"},
   winner      : Players \cup {"none"}]

Other(id) == IF id = Me THEN Opp ELSE Me

\* the title the open result modal of this client shows
ShownTitle == getResultDisplay(currentGameState)

ModalOpen == currentPage = "multiplayer" /\ Rendered /\ showResultModal

\* C16: for every result and every player the title is 'You Won!' exactly
\* when the status is finished and the winner is that player, 'You Lost'
\* exactly when it is finished and the winner is the other player, and
\* 'Draw!' exactly when the status is draw; one player is shown 'You Won!'
\* exactly when the other is shown 'You Lost', and 'Draw!' is shown to both
\* or to none.  The server ends a match as a draw exactly when both players
\* have used their rounds and there is no winner, and the title of the open
\* modal of this client never contradicts the outcome on the server.
C16_ResultFollowsOutcome ==
  /\ [](\A gr \in GameResults, id \in Players :
         /\ ResultTitle(gr, id) = "You Won!" <=>
              (gr.game_status = "finished" /\ gr.winner = id)
         /\ ResultTitle(gr, id) = "You Lost" <=>
              (gr.game_status = "finished" /\ gr.winner = Other(id))
         /\ ResultTitle(gr, id) = "Draw!" <=> gr.game_status = "draw"
         /\ ResultTitle(gr, id) = "You Won!" <=> ResultTitle(gr, Other(id)) = "You Lost"
         /\ ResultTitle(gr, id) = "Draw!" <=> ResultTitle(gr, Other(id)) = "Draw!")
  /\ [](srv.game_status = "draw" <=>
          (/\ srv.status = "finished" /\ srv.winner = "none"
           /\ Len(srv.guesses) >= MaxRounds /\ srv.oppFinished /\ ~Won(srv.guesses)))
  /\ [](ModalOpen =>
         /\ ShownTitle = "You Won!" => (srv.status = "finished" /\ srv.winner = Me)
         /\ ShownTitle = "You Lost" => (srv.status = "finished" /\ srv.winner = Opp)
         /\ ShownTitle = "Draw!" => srv.game_status = "draw")

\* C16 witness: both players used their rounds without the word and the
\* modal of this client shows the draw
C16_Witness ==
  /\ ModalOpen /\ ShownTitle = "Draw!"
  /\ Len(srv.guesses) >= MaxRounds /\ srv.oppFinished

(***************************************************************************)
(* C17: the status of a letter on the keyboard only goes up                *)
(***************************************************************************)
\* Miss < Present < Hit, as the classes of the keys show it
ClassRank(class) ==
  CASE class = "keyboard__key--hit" -> 3
    [] class = "keyboard__key--present" -> 2
    [] class = "keyboard__key--miss" -> 1
    [] OTHER -> 0

\* C17: with every accepted guess of a game the class of the key of each
\* letter stays or goes up in the order unused < miss < present < hit.
C17_StatusOnlyUpgrades ==
  [][\A letter \in ScoreLetters :
       ClassRank(KeyClass(scorer', letter)) >= ClassRank(KeyClass(scorer, letter))]_vars

\* C17 witness: the first guess showed a letter as present and the second
\* guess showed it as a hit
C17_Witness ==
  /\ Len(scorer.guesses) = 2
  /\ LetterStatus(<<scorer.guesses[1]>>, scorer.secret)["A"] = "PRESENT"
  /\ KeyClass(scorer, "A") = "keyboard__key--hit"

(***************************************************************************)
(* C18: the verdicts of a letter and its occurrences in the secret         *)
(***************************************************************************)
\* the positions of a guess where the letter got a Hit or a Present
Credited(guess, secret, letter) ==
  {i \in Positions : guess[i] = letter /\ score(guess, secret)[i] \in {"HIT", "PRESENT"}}

\* C18: for every secret and every guess the session scored, each letter
\* has at most as many Hit and Present verdicts as it occurs in the secret,
\* every position where guess and secret agree is a Hit, and the secret
\* scored against itself is all Hit.
C18_ScoreCountsLetters ==
  /\ \A k \in 1..Len(scorer.guesses) :
       LET guess == scorer.guesses[k]
       IN /\ \A letter \in ScoreLetters :
               Cardinality(Credited(guess, scorer.secret, letter))
                 <= Count(letter, scorer.secret, Positions)
          /\ \A i \in Positions :
               guess[i] = scorer.secret[i] => score(guess, scorer.secret)[i] = "HIT"
  /\ \A i \in Positions : score(scorer.secret, scorer.secret)[i] = "HIT"

\* C18 witness: the guess has the letter three times and the secret once,
\* out of place: one Present, and the other two are Miss
C18_Witness ==
  /\ scorer.secret = <<"B", "A", "B", "B", "B">>
  /\ scorer.guesses = << <<"A", "B", "A", "B", "A">> >>
  /\ score(scorer.guesses[1], scorer.secret) =
       <<"PRESENT", "PRESENT", "MISS", "HIT", "MISS">>


(***************************************************************************)
(* C19: one submission in flight                                           *)
(***************************************************************************)
\* the guess_result events on their way to the client
GuessResults == {k \in 1..Len(inbox) : inbox[k].type = "guess_result"}

\* the submissions of this client that are not answered yet: the messages
\* on their way to the server, the results on their way back, and the HTTP
\* guess without its response
InFlight ==
  Len(outbox) + Cardinality(GuessResults) + (IF httpSubmit # NoWord THEN 1 ELSE 0)

\* the step hands the client the result of its submission: a guess_result
\* is delivered to handleGuessResult, or the HTTP guess is answered
ResultReceived ==
  \/ Deliver /\ Head(inbox).type = "guess_result"
  \/ HttpSubmitResponse

\* C19: the client has at most one submission in flight.  A step that emits
\* a guess or a spell is taken with isSubmitting false and sets it; from
\* then on isSubmitting stays set until the result of that submission is
\* received (or the page is left), also when the socket drops and the result
\* is lost; so no submission is emitted while an earlier one is unanswered,
\* and no Enter is accepted while one is.
C19_OneSubmissionInFlight ==
  /\ [](InFlight <= 1)
  /\ [](InFlight = 1 => isSubmitting)
  /\ [](isSubmitting => ~ENABLED (KeyStep /\ Submission))
  /\ [][Submission => ~isSubmitting /\ isSubmitting' /\ InFlight = 0]_vars
  /\ [][isSubmitting /\ ~isSubmitting' => ResultReceived \/ LeaveGame]_vars

\* C19 witness: a submission went out on the socket and its result is not
\* back yet, the next complete word is in the input, the game is not over
\* and no BLOCK is active, so only isSubmitting keeps Enter from sending it
C19_Witness ==
  /\ Rendered /\ wsConnected /\ ~InputClosed /\ ~Blocked
  /\ ~Finished(gameState) /\ ~GameOver(gameState)
  /\ isSubmitting /\ Len(outbox) = 1
  /\ Len(currentGuess) = WordLength


(***************************************************************************)
(* C20: the end of the match in the view of the client                     *)
(***************************************************************************)
\* the socket hands an event of the match to its listener and the page
\* stays on the match
EventHandled == Deliver /\ currentPage' = "multiplayer"

\* C20: once the game state the page shows has game_over, no event of the
\* match that the socket delivers brings it back to a state without
\* game_over.
C20_TerminalAbsorbing ==
  [][(currentPage = "multiplayer" /\ GameOver(currentGameState) /\ EventHandled) =>
       GameOver(currentGameState')]_vars

\* C20 witness: the page had loaded the final state of the match over HTTP
\* and opened the result modal; a game_state_update sent before the end was
\* then handled, and the page shows a game that is not over
C20_Witness ==
  /\ Rendered /\ wsConnected /\ terminalObserved /\ showResultModal
  /\ GameOver(gameState) /\ srv.status # "active"
  /\ ~GameOver(currentGameState)


(***************************************************************************)
(* C21: the board of the player in the final state                         *)
(***************************************************************************)
\* the socket hands a game_ended event to handleGameEnded
GameEndedHandled ==
  Deliver /\ Head(inbox).type = "game_ended" /\ currentPage' = "multiplayer"

\* the board of a player: its guesses, their results, the round and the
\* status of the letters
Board(player) ==
  <<player.guesses, player.guess_results, player.current_round, player.letter_status>>

\* C21: the step that handles game_ended leaves the board of the player as
\* the hook held it (the state of the last game_state_update it applied),
\* and uses the empty default player only when the hook held no state.
C21_GameEndedKeepsBoard ==
  [][GameEndedHandled =>
       IF wsGameState # Null
       THEN Board(wsGameState'.player) = Board(wsGameState.player)
       ELSE wsGameState'.player = DefaultPlayer]_vars

\* C21 witness: the hook had applied a state update with a guess of this
\* player, game_ended was handled, and the final state shows the empty
\* default player
C21_Witness ==
  /\ currentPage = "multiplayer" /\ wsGameEnded /\ wsGameState # Null
  /\ wsGameState.game_over /\ wsGameState.player = DefaultPlayer
  /\ closureGameState = Null
  /\ Len(srv.guesses) = 1


(***************************************************************************)
(* C22: the length of the current guess                                    *)
(***************************************************************************)
\* C22: in every reachable state the current guess of the multiplayer page
\* holds at most WordLength letters.
C22_GuessAtMostFive == Len(currentGuess) <= WordLength

\* C22 witness: under WRONG a letter was typed after a complete word, and
\* the current guess holds more letters than a word
C22_Witness ==
  /\ Rendered /\ ~InputClosed
  /\ spellEffects.wrongLettersRemaining = WrongLetters - 1
  /\ Len(currentGuess) = WordLength + 1


(***************************************************************************)
(* C23: the end of a submission                                            *)
(***************************************************************************)
\* C23: whenever isSubmitting is true it is false again later.
C23_SubmissionEnds == isSubmitting ~> ~isSubmitting

\* C23 witness: the guess went out on the socket, the server answered, the
\* socket dropped with the guess_result on its way; nothing is in flight any
\* more and isSubmitting is still true
C23_Witness ==
  /\ Rendered /\ isSubmitting /\ ~wsConnected
  /\ outbox = <<>> /\ inbox = <<>> /\ httpSubmit = NoWord
  /\ Len(srv.guesses) = 1


(***************************************************************************)
(* C24: one request at a time in the single-player page                    *)
(***************************************************************************)
\* a key of the single-player page is handled
SpKeyStep == \E key \in AllLetters \cup {"ENTER", "BACKSPACE"} : handleKeyPress(key)

\* the step sends a request of the single-player page
SendsRequest == request' # Null /\ request' # request

\* C24: on the single-player page loading is true exactly while a request
\* is in flight; while it is, no key changes the input or sends a guess and
\* New Game does nothing; a request is sent only when none is in flight, and
\* the answer to a guess is applied to the game the guess was sent for.
C24_OneRequestAtATime ==
  /\ [](currentPage = "wordle" => (game.loading <=> request # Null))
  /\ [](game.loading =>
          /\ ~ENABLED (SpKeyStep /\ (game' # game \/ request' # request))
          /\ ~ENABLED handleNewGame)
  /\ [][SendsRequest => (request = Null /\ ~game.loading)]_vars
  /\ [][SubmitResponse => (request.gameId = game.gameId /\ game'.gameId = game.gameId)]_vars

\* C24 witness: the guess of the second game of the page is in flight, with
\* the complete word still in the input
C24_Witness ==
  /\ currentPage = "wordle" /\ game.loading
  /\ request # Null /\ request.kind = "guess" /\ request.gameId = 2
  /\ Len(game.currentInput) = WordLength


(***************************************************************************)
(* C25: the lobby membership and the lobby page                            *)
(***************************************************************************)
\* the step emits join_lobby
EmitsJoinLobby ==
  /\ Len(lobbyOutbox') > Len(lobbyOutbox)
  /\ lobbyOutbox'[Len(lobbyOutbox')].type = "join_lobby"

\* C25: join_lobby is emitted only when the last lobby message emitted was
\* not join_lobby, and while the lobby page is not mounted the last lobby
\* message emitted, if any, is leave_lobby.
C25_LobbyFollowsPage ==
  /\ [][EmitsJoinLobby => lastLobbyEmit # "join_lobby"]_vars
  /\ [](currentPage # "lobby" => lastLobbyEmit \in {"none", "leave_lobby"})

\* C25 witness: the page was left with the timer of its refresh pending;
\* the timers have run since, the server has handled every message, and it
\* holds this client as a subscriber of the lobby
C25_Witness ==
  /\ currentPage = "menu" /\ lastLobbyEmit = "join_lobby"
  /\ staleTimers = {} /\ lobbyOutbox = <<>>
  /\ lobby.subscribed


(***************************************************************************)
(* C26: token and user are set and cleared together                        *)
(***************************************************************************)
\* C26: in every reachable state the AuthProvider holds a token exactly
\* when it holds a user; the answer to a login sets both, a failed login
\* changes neither, and the end of a logout clears both, whether or not the
\* request reached the server.
C26_TokenAndUserTogether ==
  /\ [](token = NoToken <=> user = "none")
  /\ [][LoginResponse => (token' # NoToken /\ user' # "none")]_vars
  /\ [][LoginFails => UNCHANGED <<token, user>>]_vars
  /\ [][LogoutResponse => (token' = NoToken /\ user' = "none")]_vars

\* C26 witness: the logout of the first login never reached the server; the
\* client holds neither token nor user while the session is still live
C26_Witness ==
  /\ token = NoToken /\ user = "none"
  /\ logins = 1 /\ net = <<>>
  /\ Live(registry, 1)


(***************************************************************************)
(* C27: a logout request and the authenticated state                       *)
(***************************************************************************)
\* the server has ended the session of the token on a logout request: the
\* session is gone and no later login of the identity has evicted it
EndedOnRequest(tok) == ~Live(registry, tok) /\ registry.evictions[tok] = 0

\* C27: in no reachable state does the client hold the token and the user
\* of a session that the server has ended on a logout request of this
\* client.
C27_LogoutLeavesAuth ==
  (token # NoToken /\ user # "none") => ~EndedOnRequest(token)

\* C27 witness: the page was hidden and the beacon has logged the session
\* out; no request is in flight and the client holds token and user
C27_Witness ==
  /\ token # NoToken /\ user = Me
  /\ EndedOnRequest(token)
  /\ net = <<>> /\ ~heartbeatFailed


(***************************************************************************)
(* C28: the connection state of WebSocketService                           *)
(***************************************************************************)
\* the socket of the service is connected
SocketConnected == service.socket # Null /\ service.socket.connected

\* what disconnect leaves behind
ServiceCleared(svc) ==
  svc.socket = Null /\ ~svc.isConnected /\ svc.eventListeners = NoListeners

\* C28: in every reachable state of the service isConnected implies a
\* socket, and without a socket the listener registry is empty.  connect on a
\* connected socket leaves the socket, creates no other and resolves true;
\* disconnect leaves no socket, isConnected false and an empty registry; on
\* without a socket registers nothing; and joinRoom, leaveRoom, submitGuess,
\* joinLobby and emit send nothing unless isConnectedToServer.
C28_ServiceConsistent ==
  /\ [](service.isConnected => service.socket # Null)
  /\ [](service.socket = Null => service.eventListeners = NoListeners)
  /\ [](SocketConnected =>
          ~ENABLED (connect /\ (\/ service'.created # service.created
                                \/ service'.socket # service.socket
                                \/ service'.resolved # "true")))
  /\ [](~ENABLED (disconnect /\ ~ServiceCleared(service')))
  /\ [](service.socket = Null =>
          ~ENABLED (\E event \in ServiceEvents, callback \in Callbacks :
                      on(event, callback) /\ service' # service))
  /\ [](~isConnectedToServer(service) =>
          ~ENABLED (\E method \in Methods : send(method) /\ service' # service))

\* C28 witness: the service is connected on its second socket, after a
\* disconnect; two listeners are registered for an event and a message was
\* sent
C28_Witness ==
  /\ SocketConnected /\ service.isConnected
  /\ service.created = 2 /\ service.resolved = "true"
  /\ service.eventListeners["game_ended"] = <<"cb1", "cb2">>
  /\ service.sent = 1

\* ---------------------------------------------------------------------
\* C29  HTTP polling of the match is a fallback only: at every moment at
\*      most one polling interval is active, none is active while the
\*      WebSocket is connected or while the page of the match is not
\*      mounted, and a step that changes the connection state or unmounts
\*      the page clears the interval that was active.
\* ---------------------------------------------------------------------
C29_PollingIsFallback ==
  /\ [](pollIntervals <= 1)
  /\ [](wsConnected => pollIntervals = 0)
  /\ [](currentPage # "multiplayer" => pollIntervals = 0)
  /\ [][(pollIntervals > 0 /\ (wsConnected' # wsConnected \/ currentPage' # "multiplayer"))
          => pollIntervals' = 0]_vars

\* C29 witness: the page has received an update over the socket, the
\* socket has dropped since, and one polling interval is active again
C29_Witness ==
  /\ currentPage = "multiplayer" /\ ~wsConnected
  /\ wsGameState # Null
  /\ pollIntervals = 1

==========================================================================
